---------------------------- MODULE Spec2Model ----------------------------
(***************************************************************************)
(* Model of the chunking engine of backend/app/ingestion/chunker.py:       *)
(* TextChunker.__init__, count_tokens, chunk_text, _create_chunk,          *)
(* _get_overlap, _split_into_sentences, _split_long_text and chunk_pages.  *)
(*                                                                         *)
(* A text is a sequence of one-character strings.  chunk_text is a state   *)
(* machine with one step per iteration of its sentence loop; the helper    *)
(* methods are operators computed the way the code computes them.          *)
(***************************************************************************)
EXTENDS Integers, Sequences, FiniteSets, TLC

(***************************************************************************)
(* Bounds of the model.                                                    *)
(***************************************************************************)
\* Longest input text, in words of WordPool joined by single spaces.
MaxWords == 4
\* Largest chunk_size and chunk_overlap a TextChunker is constructed with.
MaxChunkSize == 6
\* Longest page list handed to chunk_pages.
MaxPages == 2
\* Longest text of the exhaustive texts handed to _split_into_sentences.
MaxSplitLen == 4
\* Most messages in the dict of a ChatService, and most rows of the table
\* chat_history.
MaxMessages == 4

(***************************************************************************)
(* Characters.                                                             *)
(***************************************************************************)
\* str.strip / str.split / regex \s
Whitespace == {" ", "\t", "\n"}
\* regex class [.!?]
SentenceEnd == {".", "!", "?"}
\* regex class [A-Z]
Uppercase == {"A", "B", "C", "D", "E", "F", "G", "H", "I", "J", "K", "L", "M",
              "N", "O", "P", "Q", "R", "S", "T", "U", "V", "W", "X", "Y", "Z"}

(***************************************************************************)
(* Sequence helpers (Python built-ins used by the chunker).                *)
(***************************************************************************)
RECURSIVE lstrip(_)
lstrip(s) ==
    IF s = <<>> THEN <<>>
    ELSE IF Head(s) \in Whitespace THEN lstrip(Tail(s)) ELSE s

RECURSIVE rstrip(_)
rstrip(s) ==
    IF s = <<>> THEN <<>>
    ELSE IF s[Len(s)] \in Whitespace THEN rstrip(SubSeq(s, 1, Len(s) - 1)) ELSE s

\* str.strip()
strip(s) == rstrip(lstrip(s))

\* " ".join(parts)
RECURSIVE join(_)
join(parts) ==
    IF parts = <<>> THEN <<>>
    ELSE IF Len(parts) = 1 THEN parts[1]
    ELSE parts[1] \o <<" ">> \o join(Tail(parts))

\* str.split(): the maximal runs of non-whitespace characters, in order
RECURSIVE splitWords(_, _, _)
splitWords(s, cur, acc) ==
    IF s = <<>> THEN (IF cur = <<>> THEN acc ELSE Append(acc, cur))
    ELSE IF Head(s) \in Whitespace
         THEN splitWords(Tail(s), <<>>, IF cur = <<>> THEN acc ELSE Append(acc, cur))
         ELSE splitWords(Tail(s), Append(cur, Head(s)), acc)

split(s) == splitWords(s, <<>>, <<>>)

\* sum of a sequence of integers
RECURSIVE Sum(_)
Sum(ns) == IF ns = <<>> THEN 0 ELSE Head(ns) + Sum(Tail(ns))

\* concatenation of a sequence of sequences
RECURSIVE Flatten(_)
Flatten(ss) == IF ss = <<>> THEN <<>> ELSE Head(ss) \o Flatten(Tail(ss))

(***************************************************************************)
(* TextChunker.count_tokens.  The encoding is tiktoken's; it is modelled   *)
(* as a byte-level encoding with the GPT convention for blanks: every      *)
(* non-blank character is one token, a blank run in front of a character   *)
(* is merged into that character's token, and a trailing blank run is a    *)
(* token of its own.  So count_tokens(word + " ") = count_tokens(word) + 1 *)
(* while joining two texts with a blank adds no token.                     *)
(***************************************************************************)
RECURSIVE NonBlank(_)
NonBlank(s) ==
    IF s = <<>> THEN 0
    ELSE (IF Head(s) \in Whitespace THEN 0 ELSE 1) + NonBlank(Tail(s))

count_tokens(s) ==
    NonBlank(s) + (IF s # <<>> /\ s[Len(s)] \in Whitespace THEN 1 ELSE 0)

(***************************************************************************)
(* TextChunker._split_into_sentences.                                      *)
(* re.split(r'(?<=[.!?])\s+(?=[A-Z])', text): a match is a maximal blank   *)
(* run that directly follows a character of [.!?] and is directly followed *)
(* by a character of [A-Z]; the run is removed and the text cut there.     *)
(***************************************************************************)
\* last index of the blank run of s that starts at index i
RECURSIVE runEnd(_, _)
runEnd(s, i) ==
    IF i < Len(s) /\ s[i + 1] \in Whitespace THEN runEnd(s, i + 1) ELSE i

\* a mutation of matchAt: the lookahead (?=[A-Z]) is left out of the pattern
matchAtAnyCase(s, i) ==
    /\ i > 1
    /\ s[i] \in Whitespace
    /\ s[i - 1] \in SentenceEnd
    /\ runEnd(s, i) < Len(s)

\* a match of the pattern starts at index i of s
matchAt(s, i) ==
    /\ i > 1
    /\ s[i] \in Whitespace
    /\ s[i - 1] \in SentenceEnd
    /\ runEnd(s, i) < Len(s)
    /\ s[runEnd(s, i) + 1] \in Uppercase

RECURSIVE reSplit(_, _, _, _)
reSplit(s, i, cur, acc) ==
    IF i > Len(s) THEN Append(acc, cur)
    ELSE IF matchAt(s, i)
         THEN reSplit(s, runEnd(s, i) + 1, <<>>, Append(acc, cur))
         ELSE reSplit(s, i + 1, Append(cur, s[i]), acc)

\* a mutation of cleanAndFilter: the pieces are kept as re.split cut them
RECURSIVE cleanAndFilterUnstripped(_)
cleanAndFilterUnstripped(raw) ==
    IF raw = <<>> THEN <<>>
    ELSE <<Head(raw)>> \o cleanAndFilterUnstripped(Tail(raw))

\* the "clean and filter" loop: strip every piece, keep the non-empty ones
RECURSIVE cleanAndFilter(_)
cleanAndFilter(raw) ==
    IF raw = <<>> THEN <<>>
    ELSE (IF strip(Head(raw)) # <<>> THEN <<strip(Head(raw))>> ELSE <<>>)
         \o cleanAndFilter(Tail(raw))

_split_into_sentences(text) == cleanAndFilter(reSplit(text, 1, <<>>, <<>>))


(***************************************************************************)
(* Inputs.                                                                 *)
(***************************************************************************)
\* The words texts are built from: the empty word (two words around it are
\* separated by a blank run of two, a text of empty words only is blank), a
\* capitalised word that ends a sentence, a lower-case word, and a lower-case
\* word that ends a sentence.
WordPool == {<<>>, <<"A", ".">>, <<"a">>, <<"a", ".">>}

Texts == {join(ws) : ws \in UNION {[1..n -> WordPool] : n \in 0..MaxWords}}

\* chunk_size and chunk_overlap come from the settings as unvalidated integers
ConfigValues == 0..MaxChunkSize

\* The page texts chunk_pages is called with: a blank page, a page of one
\* sentence, a page of two sentences.
PageTexts == {<<" ">>, <<"A", ".">>, <<"A", ".", " ", "A", " ", "a", ".">>}

\* metadata["source"] of the page at each position of the page list
PageSources == <<"a.pdf", "b.pdf", "c.pdf", "d.pdf">>

ExtractedPage(n, t) ==
    [page_number |-> n, text |-> t, metadata |-> {<<"source", PageSources[n]>>}]

PageLists ==
    UNION {{[i \in 1..n |-> ExtractedPage(i, ts[i])] : ts \in [1..n -> PageTexts]} :
           n \in 0..MaxPages}

\* a dict is the set of its (key, value) pairs; dict.get(key, default)
dictGet(d, key, default) ==
    IF \E kv \in d : kv[1] = key THEN (CHOOSE kv \in d : kv[1] = key)[2] ELSE default

(***************************************************************************)
(* The inputs of the services around the chunker.                          *)
(***************************************************************************)
\* the upload_document requests
Requests == {1, 2}
\* file.filename of an upload: two names with an allowed extension
Filenames == {"a.pdf", "b.docx"}
\* the bytes of an uploaded file
Contents == {<<"x">>, <<"y", "y">>}
\* conversation identifiers
ConversationIds == {"c1", "c2"}

(***************************************************************************)
(* State.                                                                  *)
(***************************************************************************)
VARIABLES
    pc,             \* position of the caller: "new", "ready", "loop", "done",
                    \* "pages_loop", "pages_done"
    chunk_size,     \* self.chunk_size
    chunk_overlap,  \* self.chunk_overlap
    caller,         \* who called chunk_text: "direct" or "pages"
    text,           \* chunk_text: argument text
    page_number,    \* chunk_text: argument page_number
    base_metadata,  \* chunk_text: argument base_metadata
    sentences,      \* chunk_text: local sentences
    sentence_i,     \* chunk_text: position of the for loop in sentences
    current_chunk,  \* chunk_text: local current_chunk, a list of references to
                    \* elements of sentences (their positions)
    current_tokens, \* chunk_text: local current_tokens
    chunk_index,    \* chunk_text: local chunk_index
    chunks,         \* chunk_text: local chunks, the list that is returned
    pages,          \* chunk_pages: argument pages
    page_i,         \* chunk_pages: position of the for loop in pages
    all_chunks,     \* chunk_pages: local all_chunks
    document_name,  \* chunk_pages: argument document_name
    category,       \* chunk_pages: argument category
    seeded,         \* history: how many leading entries of current_chunk were
                    \* put there by _get_overlap
    emitted,        \* history: for every element of chunks, how it was made
    count_calls,    \* history: calls of count_tokens made by the running
                    \* chunk_text call
    separate,       \* a caller of chunk_text: the chunks of chunk_text called
                    \* on each page on its own, one list after the other
    separate_i,     \* that caller's position in pages
    phase,          \* what the caller is at: "none"; "first", "between",
                    \* "again" for a caller that repeats a call; "alone1",
                    \* "alone2", "concurrent" for a caller with two threads
    first_call,     \* that caller's first call: its arguments, what it
                    \* returned, and the texts of the calls made in between
    alone,          \* two threads: what the call of each returned when it
                    \* was made with no other call running
    running,        \* two threads: the thread that is running, 1 or 2
    parked,         \* two threads: the frame of the chunk_text call of the
                    \* thread that is not running, <<>> before it has called
    encoder_error,  \* history: what the encoder raised and how many chunks
                    \* had been made by then, <<>> if it has not raised
    exception,      \* the exception the caller of chunk_text or chunk_pages
                    \* has got, "none" if it has got none
    collection,     \* the records of the vector store, one per identifier
    heap,           \* the dict objects: heap[r] is the mapping held by the
                    \* object with reference r
    caller_metadata,\* the reference of the dict the caller gave chunk_text as
                    \* base_metadata, 0 for None
    chunk_metadata, \* for every chunk returned to that caller, the reference
                    \* of its attribute metadata
    mutated,        \* the chunk whose metadata that caller changes, 0 before
    response,       \* ingest_document: the DocumentUploadResponse it returned
    ingest,         \* history of the ingest_document call: the step that
                    \* raised, len(pages), len(chunks), add_documents done
    disk,           \* upload_dir: for every file name the file it names, 0
                    \* if there is none
    inodes,         \* the files: their bytes
    uploads,        \* the upload_document requests: where each one is, what
                    \* it was given and what it has done
    conversations,  \* ChatService.conversations, a dict
    use_supabase,   \* ChatService.use_supabase
    chat_history,   \* the table chat_history: the rows of every conversation
    reply           \* the last call of the chat service or of the handler
                    \* of DELETE /chat/conversations: how it ended

vars == <<pc, chunk_size, chunk_overlap, caller, text, page_number, base_metadata,
          sentences, sentence_i, current_chunk, current_tokens, chunk_index,
          chunks, pages, page_i, all_chunks, document_name, category, seeded,
          emitted, count_calls, separate, separate_i, phase, first_call,
          alone, running, parked, encoder_error, exception, collection,
          heap, caller_metadata, chunk_metadata, mutated, response, ingest,
          disk, inodes, uploads, conversations, use_supabase, chat_history,
          reply>>

config == <<chunk_size, chunk_overlap>>
locals == <<text, page_number, base_metadata, sentences, sentence_i, current_chunk,
            current_tokens, chunk_index, chunks, seeded, emitted, count_calls>>
pagesLocals == <<pages, page_i, all_chunks, document_name, category>>

\* the state of the callers of the chunker
objects == <<heap, caller_metadata, chunk_metadata, mutated>>

\* the state of the services around the chunker: the ingestion pipeline, the
\* upload handler and its files, the chat service and its table
service == <<response, ingest, disk, inodes, uploads, conversations,
            use_supabase, chat_history, reply>>

harness == <<separate, separate_i, phase, first_call, alone, running, parked,
            encoder_error, exception, collection, objects, service>>

\* no call has been made
None == [text |-> <<>>, page_number |-> 0, base_metadata |-> {},
         chunks |-> <<>>, between |-> <<>>]

\* no response yet
NoResponse == [status |-> "none", page_count |-> 0, chunk_count |-> 0]

\* ingest_document has not been called
NoIngest == [step |-> "none", page_count |-> -1, produced |-> -1, added |-> FALSE]

\* a request that has not arrived
NoUpload == [pc |-> "idle", filename |-> "", content |-> <<>>, handle |-> 0,
             pending |-> FALSE, ingested |-> FALSE, found |-> FALSE,
             read |-> <<>>, outcome |-> "none", removed |-> 0, took |-> {},
             status |-> 0]

\* no call of the chat service yet
NoReply == [op |-> "none", conversation |-> "", result |-> "none", status |-> 0,
            before |-> {}, loaded |-> <<>>, unsaved |-> 0]

ServiceInit ==
    /\ response = NoResponse
    /\ ingest = NoIngest
    /\ disk = [f \in Filenames |-> 0]
    /\ inodes = <<>>
    /\ uploads = [r \in Requests |-> NoUpload]
    /\ conversations = {}
    /\ use_supabase = FALSE
    /\ chat_history = [c \in ConversationIds |-> <<>>]
    /\ reply = NoReply

HarnessInit ==
    /\ ServiceInit
    /\ separate = <<>>
    /\ separate_i = 1
    /\ phase = "none"
    /\ first_call = None
    /\ alone = <<>>
    /\ running = 1
    /\ parked = <<>>
    /\ encoder_error = <<>>
    /\ exception = "none"
    /\ collection = {}
    /\ heap = <<>>
    /\ caller_metadata = 0
    /\ chunk_metadata = <<>>
    /\ mutated = 0

(***************************************************************************)
(* TextChunker._create_chunk and TextChunk.__init__.                       *)
(***************************************************************************)
TextChunk(t, index, page, metadata) ==
    [text |-> t, chunk_index |-> index, page_number |-> page,
     metadata |-> metadata, token_count |-> 0]

\* a mutation of _create_chunk: token_count is the total of the counts of the
\* words as they were taken in, each with its blank, not a count of the text
_create_chunk_accumulating(t, index, page, metadata) ==
    [TextChunk(strip(t), index, page, metadata) EXCEPT
        !.token_count = Sum([k \in 1..Len(split(t)) |->
                                count_tokens(split(t)[k] \o <<" ">>)])]

_create_chunk(t, index, page, metadata) ==
    [TextChunk(strip(t), index, page, metadata) EXCEPT !.token_count = count_tokens(t)]

\* a mutation of _get_overlap: the sentences are appended, not inserted at
\* the front, so the overlap comes out in reverse order
RECURSIVE getOverlapAppending(_, _, _, _)
getOverlapAppending(buf, k, overlap_sentences, overlap_tokens) ==
    IF k = 0
    THEN [sentences |-> overlap_sentences, tokens |-> overlap_tokens,
          calls |-> Len(buf)]
    ELSE LET sentence_tokens == count_tokens(sentences[buf[k]])
         IN  IF overlap_tokens + sentence_tokens <= chunk_overlap
             THEN getOverlapAppending(buf, k - 1, Append(overlap_sentences, buf[k]),
                                      overlap_tokens + sentence_tokens)
             ELSE [sentences |-> overlap_sentences, tokens |-> overlap_tokens,
                   calls |-> Len(buf) - k + 1]

_get_overlap_appending(buf, total_tokens) ==
    IF buf = <<>> THEN [sentences |-> <<>>, tokens |-> 0, calls |-> 0]
    ELSE getOverlapAppending(buf, Len(buf), <<>>, 0)

\* a mutation of _get_overlap: the budget is chunk_size, not chunk_overlap
RECURSIVE getOverlapSizeBudget(_, _, _, _)
getOverlapSizeBudget(buf, k, overlap_sentences, overlap_tokens) ==
    IF k = 0
    THEN [sentences |-> overlap_sentences, tokens |-> overlap_tokens,
          calls |-> Len(buf)]
    ELSE LET sentence_tokens == count_tokens(sentences[buf[k]])
         IN  IF overlap_tokens + sentence_tokens <= chunk_size
             THEN getOverlapSizeBudget(buf, k - 1, <<buf[k]>> \o overlap_sentences,
                                       overlap_tokens + sentence_tokens)
             ELSE [sentences |-> overlap_sentences, tokens |-> overlap_tokens,
                   calls |-> Len(buf) - k + 1]

_get_overlap_size_budget(buf, total_tokens) ==
    IF buf = <<>> THEN [sentences |-> <<>>, tokens |-> 0, calls |-> 0]
    ELSE getOverlapSizeBudget(buf, Len(buf), <<>>, 0)

(***************************************************************************)
(* TextChunker._get_overlap.  buf is the flushed buffer; the loop walks it *)
(* from its last element backwards.  The result carries the number of      *)
(* count_tokens calls the walk made.                                       *)
(***************************************************************************)
\* a mutation of getOverlapLoop: "break" is missing, a sentence that does not
\* fit is passed over and the walk goes on
RECURSIVE getOverlapLoopSkipping(_, _, _, _)
getOverlapLoopSkipping(buf, k, overlap_sentences, overlap_tokens) ==
    IF k = 0
    THEN [sentences |-> overlap_sentences, tokens |-> overlap_tokens,
          calls |-> Len(buf)]
    ELSE LET sentence_tokens == count_tokens(sentences[buf[k]])
         IN  IF overlap_tokens + sentence_tokens <= chunk_overlap
             THEN getOverlapLoopSkipping(buf, k - 1, <<buf[k]>> \o overlap_sentences,
                                         overlap_tokens + sentence_tokens)
             ELSE getOverlapLoopSkipping(buf, k - 1, overlap_sentences,
                                         overlap_tokens)

RECURSIVE getOverlapLoop(_, _, _, _)
getOverlapLoop(buf, k, overlap_sentences, overlap_tokens) ==
    IF k = 0
    THEN [sentences |-> overlap_sentences, tokens |-> overlap_tokens,
          calls |-> Len(buf)]
    ELSE LET sentence_tokens == count_tokens(sentences[buf[k]])
         IN  IF overlap_tokens + sentence_tokens <= chunk_overlap
             THEN getOverlapLoop(buf, k - 1, <<buf[k]>> \o overlap_sentences,
                                 overlap_tokens + sentence_tokens)
             ELSE [sentences |-> overlap_sentences, tokens |-> overlap_tokens,
                   calls |-> Len(buf) - k + 1]

_get_overlap(buf, total_tokens) ==
    IF buf = <<>> THEN [sentences |-> <<>>, tokens |-> 0, calls |-> 0]
    ELSE getOverlapLoop(buf, Len(buf), <<>>, 0)

\* a mutation of _split_long_text: when a sub-chunk is closed the running
\* total restarts at 0, not at the tokens of the word that opens the next one
RECURSIVE splitLongLoopZeroed(_, _, _, _)
splitLongLoopZeroed(words, sub_chunks, cur, cur_tokens) ==
    IF words = <<>>
    THEN (IF cur # <<>> THEN Append(sub_chunks, join(cur)) ELSE sub_chunks)
    ELSE LET word == Head(words)
             word_tokens == count_tokens(word \o <<" ">>)
         IN  IF cur_tokens + word_tokens > chunk_size
             THEN splitLongLoopZeroed(Tail(words),
                                      IF cur # <<>> THEN Append(sub_chunks, join(cur))
                                                    ELSE sub_chunks,
                                      <<word>>, 0)
             ELSE splitLongLoopZeroed(Tail(words), sub_chunks, Append(cur, word),
                                      cur_tokens + word_tokens)

_split_long_text_zeroed(t) == splitLongLoopZeroed(split(t), <<>>, <<>>, 0)

(***************************************************************************)
(* TextChunker._split_long_text.                                           *)
(***************************************************************************)
\* a mutation of splitLongLoop: ">=" for ">", a sub-chunk is closed before a
\* word that brings the total to chunk_size
RECURSIVE splitLongLoopClosingEarly(_, _, _, _)
splitLongLoopClosingEarly(words, sub_chunks, cur, cur_tokens) ==
    IF words = <<>>
    THEN (IF cur # <<>> THEN Append(sub_chunks, join(cur)) ELSE sub_chunks)
    ELSE LET word == Head(words)
             word_tokens == count_tokens(word \o <<" ">>)
         IN  IF cur_tokens + word_tokens >= chunk_size
             THEN splitLongLoopClosingEarly(Tail(words),
                                IF cur # <<>> THEN Append(sub_chunks, join(cur))
                                              ELSE sub_chunks,
                                <<word>>, word_tokens)
             ELSE splitLongLoopClosingEarly(Tail(words), sub_chunks,
                                Append(cur, word), cur_tokens + word_tokens)

RECURSIVE splitLongLoop(_, _, _, _)
splitLongLoop(words, sub_chunks, cur, cur_tokens) ==
    IF words = <<>>
    THEN (IF cur # <<>> THEN Append(sub_chunks, join(cur)) ELSE sub_chunks)
    ELSE LET word == Head(words)
             word_tokens == count_tokens(word \o <<" ">>)
         IN  IF cur_tokens + word_tokens > chunk_size
             THEN splitLongLoop(Tail(words),
                                IF cur # <<>> THEN Append(sub_chunks, join(cur))
                                              ELSE sub_chunks,
                                <<word>>, word_tokens)
             ELSE splitLongLoop(Tail(words), sub_chunks, Append(cur, word),
                                cur_tokens + word_tokens)

_split_long_text(t) == splitLongLoop(split(t), <<>>, <<>>, 0)

(***************************************************************************)
(* Initial state: no TextChunker exists yet.                               *)
(***************************************************************************)
NoCall ==
    /\ chunk_size = 0
    /\ chunk_overlap = 0
    /\ caller = "direct"
    /\ page_number = 1
    /\ base_metadata = {}
    /\ sentences = <<>>
    /\ sentence_i = 1
    /\ current_chunk = <<>>
    /\ current_tokens = 0
    /\ chunk_index = 0
    /\ chunks = <<>>
    /\ pages = <<>>
    /\ page_i = 1
    /\ all_chunks = <<>>
    /\ document_name = ""
    /\ category = ""
    /\ seeded = 0
    /\ emitted = <<>>
    /\ count_calls = 0
    /\ HarnessInit

Init ==
    /\ pc = "new"
    /\ text = <<>>
    /\ NoCall

(***************************************************************************)
(* TextChunker.__init__: the two integers are stored as they come.         *)
(***************************************************************************)
TextChunker__init__(size, overlap) ==
    /\ pc = "new"
    /\ chunk_size' = size
    /\ chunk_overlap' = overlap
    /\ pc' = "ready"
    /\ UNCHANGED <<caller, locals, pagesLocals, harness>>

Construct == \E size \in ConfigValues, overlap \in ConfigValues :
                 TextChunker__init__(size, overlap)

\* a mutation of chunk_text_enter: "chunk_index = 0" is missing, as if the
\* index were kept in the instance
chunk_text_enter_keeping_index(t, page, metadata) ==
    /\ text' = t
    /\ page_number' = page
    /\ base_metadata' = metadata
    /\ chunks' = <<>>
    /\ current_chunk' = <<>>
    /\ current_tokens' = 0
    /\ chunk_index' = chunk_index
    /\ sentence_i' = 1
    /\ seeded' = 0
    /\ emitted' = <<>>
    /\ count_calls' = 0
    /\ IF strip(t) = <<>>
       THEN /\ sentences' = <<>>
            /\ pc' = "done"
       ELSE /\ sentences' = _split_into_sentences(t)
            /\ pc' = "loop"

(***************************************************************************)
(* chunk_text, from its first line to the head of the sentence loop.       *)
(***************************************************************************)
chunk_text_enter(t, page, metadata) ==
    /\ text' = t
    /\ page_number' = page
    /\ base_metadata' = metadata
    /\ chunks' = <<>>
    /\ current_chunk' = <<>>
    /\ current_tokens' = 0
    /\ chunk_index' = 0
    /\ sentence_i' = 1
    /\ seeded' = 0
    /\ emitted' = <<>>
    /\ count_calls' = 0
    /\ IF strip(t) = <<>>
       THEN /\ sentences' = <<>>
            /\ pc' = "done"
       ELSE /\ sentences' = _split_into_sentences(t)
            /\ pc' = "loop"

\* a caller other than chunk_pages calls chunk_text with the default
\* page_number and no base_metadata
CallChunkText ==
    /\ pc = "ready"
    /\ \E t \in Texts : chunk_text_enter(t, 1, {})
    /\ caller' = "direct"
    /\ UNCHANGED <<config, pagesLocals, harness>>

\* the text of the chunk made of the buffer buf
bufferText(buf) == join([k \in 1..Len(buf) |-> sentences[buf[k]]])

\* a mutation of subChunks: "chunk_index += 1" is missing in the loop
subChunksSameIndex(sub_chunks, index) ==
    [k \in 1..Len(sub_chunks) |->
        _create_chunk(sub_chunks[k], index, page_number, base_metadata)]

\* the sub-chunks of a long sentence as chunks numbered from index on
subChunks(sub_chunks, index) ==
    [k \in 1..Len(sub_chunks) |->
        _create_chunk(sub_chunks[k], index + k - 1, page_number, base_metadata)]

\* a mutation of bufferAfterSave: "current_chunk = []" is missing
bufferAfterSaveKept(saved, buf) == buf

\* the buffer after "save current chunk if any" of the long-sentence branch
\* (lines 97-104): emptied when it was saved
bufferAfterSave(saved, buf) == IF saved THEN <<>> ELSE buf

\* a mutation of LongSentence: the long sentence is put back at the head of
\* the sentences that are left, to be looked at again
LongSentenceRequeued ==
    /\ pc = "loop"
    /\ sentence_i <= Len(sentences)
    /\ count_tokens(sentences[sentence_i]) > chunk_size
    /\ UNCHANGED vars

(***************************************************************************)
(* One iteration of the sentence loop, for a sentence longer than          *)
(* chunk_size (lines 95-113).                                              *)
(***************************************************************************)
LongSentence ==
    /\ pc = "loop"
    /\ sentence_i <= Len(sentences)
    /\ LET sentence == sentences[sentence_i]
           sentence_tokens == count_tokens(sentence)
           saved == current_chunk # <<>>
           index == IF saved THEN chunk_index + 1 ELSE chunk_index
           sub_chunks == _split_long_text(sentence)
       IN  /\ sentence_tokens > chunk_size
           /\ chunks' = (IF saved
                         THEN Append(chunks, _create_chunk(bufferText(current_chunk),
                                         chunk_index, page_number, base_metadata))
                         ELSE chunks) \o subChunks(sub_chunks, index)
           /\ emitted' = (IF saved
                          THEN Append(emitted, [kind |-> "long_flush",
                                                sentences |-> current_chunk,
                                                seeded |-> seeded])
                          ELSE emitted)
                         \o [k \in 1..Len(sub_chunks) |->
                                [kind |-> "sub", sentences |-> <<sentence_i>>,
                                 seeded |-> 0]]
           /\ chunk_index' = index + Len(sub_chunks)
           /\ current_chunk' = bufferAfterSave(saved, current_chunk)
           /\ current_tokens' = IF saved THEN 0 ELSE current_tokens
           /\ seeded' = IF saved THEN 0 ELSE seeded
           /\ count_calls' = count_calls + 1 + (IF saved THEN 1 ELSE 0)
                             + Len(split(sentence)) + Len(sub_chunks)
    /\ sentence_i' = sentence_i + 1
    /\ UNCHANGED <<pc, config, caller, text, page_number, base_metadata, sentences,
                   pagesLocals, harness>>

\* a mutation of exceeds: ">=" for ">"
exceedsOrFills(tokens, sentence_tokens) == tokens + sentence_tokens >= chunk_size

\* "current_tokens + sentence_tokens > self.chunk_size" (line 116)
exceeds(tokens, sentence_tokens) == tokens + sentence_tokens > chunk_size

(***************************************************************************)
(* One iteration of the sentence loop, for a sentence that does not fit    *)
(* behind a non-empty buffer (lines 116-133).                              *)
(***************************************************************************)
FlushAndAppend ==
    /\ pc = "loop"
    /\ sentence_i <= Len(sentences)
    /\ LET sentence == sentences[sentence_i]
           sentence_tokens == count_tokens(sentence)
           overlap == _get_overlap(current_chunk, current_tokens)
       IN  /\ ~(sentence_tokens > chunk_size)
           /\ exceeds(current_tokens, sentence_tokens)
           /\ current_chunk # <<>>
           /\ chunks' = Append(chunks, _create_chunk(bufferText(current_chunk),
                                           chunk_index, page_number, base_metadata))
           /\ emitted' = Append(emitted, [kind |-> "flush",
                                          sentences |-> current_chunk,
                                          seeded |-> seeded])
           /\ chunk_index' = chunk_index + 1
           /\ current_chunk' = Append(overlap.sentences, sentence_i)
           /\ current_tokens' = overlap.tokens + sentence_tokens
           /\ seeded' = Len(overlap.sentences)
           /\ count_calls' = count_calls + 2 + overlap.calls
    /\ sentence_i' = sentence_i + 1
    /\ UNCHANGED <<pc, config, caller, text, page_number, base_metadata, sentences,
                   pagesLocals, harness>>

(***************************************************************************)
(* One iteration of the sentence loop, for a sentence that joins the       *)
(* buffer as it is (lines 116-118 not taken, 132-133).                     *)
(***************************************************************************)
AppendSentence ==
    /\ pc = "loop"
    /\ sentence_i <= Len(sentences)
    /\ LET sentence == sentences[sentence_i]
           sentence_tokens == count_tokens(sentence)
       IN  /\ ~(sentence_tokens > chunk_size)
           /\ ~(exceeds(current_tokens, sentence_tokens) /\ current_chunk # <<>>)
           /\ current_chunk' = Append(current_chunk, sentence_i)
           /\ current_tokens' = current_tokens + sentence_tokens
           /\ count_calls' = count_calls + 1
    /\ sentence_i' = sentence_i + 1
    /\ UNCHANGED <<pc, config, caller, text, page_number, base_metadata, sentences,
                   chunk_index, chunks, seeded, emitted, pagesLocals,
                   harness>>

\* a mutation of FinalFlush: the last buffer is forgotten
FinalFlushForgotten ==
    /\ pc = "loop"
    /\ sentence_i > Len(sentences)
    /\ pc' = "done"
    /\ UNCHANGED <<config, caller, text, page_number, base_metadata, sentences,
                   sentence_i, current_chunk, current_tokens, chunk_index, seeded,
                   chunks, emitted, count_calls, pagesLocals, harness>>

\* a mutation of FinalFlush: "if current_chunk" is missing, the buffer is
\* made a chunk as it is
FinalFlushUnguarded ==
    /\ pc = "loop"
    /\ sentence_i > Len(sentences)
    /\ chunks' = Append(chunks, _create_chunk(bufferText(current_chunk),
                                    chunk_index, page_number, base_metadata))
    /\ emitted' = Append(emitted, [kind |-> "final",
                                   sentences |-> current_chunk,
                                   seeded |-> seeded])
    /\ count_calls' = count_calls + 1
    /\ pc' = "done"
    /\ UNCHANGED <<config, caller, text, page_number, base_metadata, sentences,
                   sentence_i, current_chunk, current_tokens, chunk_index, seeded,
                   pagesLocals, harness>>

(***************************************************************************)
(* After the loop: "don't forget the last chunk", and return (135-143).    *)
(***************************************************************************)
FinalFlush ==
    /\ pc = "loop"
    /\ sentence_i > Len(sentences)
    /\ IF current_chunk # <<>>
       THEN /\ chunks' = Append(chunks, _create_chunk(bufferText(current_chunk),
                                            chunk_index, page_number, base_metadata))
            /\ emitted' = Append(emitted, [kind |-> "final",
                                           sentences |-> current_chunk,
                                           seeded |-> seeded])
            /\ count_calls' = count_calls + 1
       ELSE UNCHANGED <<chunks, emitted, count_calls>>
    /\ pc' = "done"
    /\ UNCHANGED <<config, caller, text, page_number, base_metadata, sentences,
                   sentence_i, current_chunk, current_tokens, chunk_index, seeded,
                   pagesLocals, harness>>

(***************************************************************************)
(* chunk_pages.                                                            *)
(***************************************************************************)
DocumentNames == {"handbook.pdf"}
Categories == {"general"}

\* chunk_pages is called (lines 234-252)
chunk_pages_enter(ps, dn, cat) ==
    /\ pc = "ready"
    /\ pages' = ps
    /\ document_name' = dn
    /\ category' = cat
    /\ page_i' = 1
    /\ all_chunks' = <<>>
    /\ caller' = "pages"
    /\ pc' = "pages_loop"
    /\ UNCHANGED <<config, locals, harness>>

CallChunkPages ==
    \E ps \in PageLists, dn \in DocumentNames, cat \in Categories :
        chunk_pages_enter(ps, dn, cat)

\* the loop body up to the call of chunk_text (lines 253-264)
\* a mutation of pageMetadata: the source is the document's name
pageMetadataNamedSource(page, dn, cat) ==
    {<<"document_name", dn>>, <<"category", cat>>, <<"source", dn>>}

\* the base_metadata chunk_pages builds for one page (lines 254-258)
pageMetadata(page, dn, cat) ==
    {<<"document_name", dn>>,
     <<"category", cat>>,
     <<"source", dictGet(page.metadata, "source", "")>>}

ChunkPage ==
    /\ pc = "pages_loop"
    /\ page_i <= Len(pages)
    /\ LET page == pages[page_i]
       IN  chunk_text_enter(page.text, page.page_number,
                            pageMetadata(page, document_name, category))
    /\ UNCHANGED <<config, caller, pagesLocals, harness>>

\* a mutation of extend: all_chunks = page_chunks
extendOverwriting(list, more) == more

\* all_chunks.extend(page_chunks)
extend(list, more) == list \o more

\* chunk_text returns to chunk_pages (line 266)
chunk_pages_extend ==
    /\ pc = "done"
    /\ caller = "pages"
    /\ all_chunks' = extend(all_chunks, chunks)
    /\ page_i' = page_i + 1
    /\ pc' = "pages_loop"
    /\ UNCHANGED <<config, caller, locals, pages, document_name, category,
                   harness>>

\* the loop is over: return all_chunks (line 273)
chunk_pages_return ==
    /\ pc = "pages_loop"
    /\ page_i > Len(pages)
    /\ pc' = "pages_done"
    /\ UNCHANGED <<config, caller, locals, pagesLocals, harness>>

(***************************************************************************)
(* A caller that has the result of chunk_pages calls chunk_text on every   *)
(* page on its own, with the arguments chunk_pages gives it (lines         *)
(* 260-264), and puts the lists it gets one after the other.               *)
(***************************************************************************)
SeparatePage ==
    /\ pc \in {"pages_done", "separate_loop"}
    /\ separate_i <= Len(pages)
    /\ LET page == pages[separate_i]
       IN  chunk_text_enter(page.text, page.page_number,
                            pageMetadata(page, document_name, category))
    /\ caller' = "separate"
    /\ UNCHANGED <<config, pagesLocals, harness>>

separate_extend ==
    /\ pc = "done"
    /\ caller = "separate"
    /\ separate' = separate \o chunks
    /\ separate_i' = separate_i + 1
    /\ pc' = "separate_loop"
    /\ UNCHANGED <<config, caller, locals, pagesLocals, phase, first_call,
                   alone, running, parked, encoder_error, exception, collection, objects, service>>

separate_return ==
    /\ pc \in {"pages_done", "separate_loop"}
    /\ separate_i > Len(pages)
    /\ pc' = "separate_done"
    /\ UNCHANGED <<config, caller, locals, pagesLocals, harness>>

(***************************************************************************)
(* IngestionPipeline: the chunks of chunk_pages are stored (pipeline.py,   *)
(* ingest_document steps 3 and 4, _store_chunks, and                       *)
(* VectorStoreService.add_documents).                                      *)
(***************************************************************************)
\* document_id = str(uuid.uuid4())
DocumentIds == {"7f3c"}

\* a mutation of chunkId: f"{document_id}_{chunk.chunk_index}"
chunkIdOfChunkIndex(document_id, i, chunk) == <<document_id, chunk.chunk_index>>

\* chunk_id = f"{document_id}_{i}": the document's identifier and the decimal
\* digits of i, here the pair of the two
chunkId(document_id, i, chunk) == <<document_id, i>>

\* the records _store_chunks hands to add_documents (enumerate counts from 0)
storeRecords(document_id, cs) ==
    [k \in 1..Len(cs) |->
        [id |-> chunkId(document_id, k - 1, cs[k]),
         text |-> cs[k].text,
         document_id |-> document_id,
         page_number |-> cs[k].page_number,
         chunk_index |-> cs[k].chunk_index,
         token_count |-> cs[k].token_count]]

\* collection.upsert(records): a record takes the place of the record with
\* its identifier, if there is one
RECURSIVE upsert(_, _)
upsert(coll, records) ==
    IF records = <<>> THEN coll
    ELSE upsert({r \in coll : r.id # Head(records).id} \cup {Head(records)},
                Tail(records))

\* ingest_document after chunk_pages has returned chunks
StoreChunks ==
    /\ pc = "pages_done"
    /\ all_chunks # <<>>
    /\ \E document_id \in DocumentIds :
           collection' = upsert(collection, storeRecords(document_id, all_chunks))
    /\ pc' = "stored"
    /\ UNCHANGED <<config, caller, locals, pagesLocals, separate, separate_i, phase,
                   first_call, alone, running, parked, encoder_error, exception,
                   objects, service>>

Next ==
    \/ Construct
    \/ CallChunkText
    \/ LongSentence
    \/ FlushAndAppend
    \/ AppendSentence
    \/ FinalFlush
    \/ CallChunkPages
    \/ ChunkPage
    \/ chunk_pages_extend
    \/ chunk_pages_return
    \/ SeparatePage
    \/ separate_extend
    \/ separate_return
    \/ StoreChunks

Spec == Init /\ [][Next]_vars

(***************************************************************************)
(* A caller that calls chunk_text, then perhaps once more with any         *)
(* arguments, then again with the arguments of its first call (lines       *)
(* 61-67, on one TextChunker).                                             *)
(***************************************************************************)
RepeatTexts == {<<" ">>,
                <<"A", ".", " ", "A", ".", " ", "A", ".">>,
                <<"a", " ", "a", ".", " ", "A", " ", "a">>}
RepeatPages == {1, 2}
RepeatMetadata == {{}, {<<"source", "a.pdf">>}}

RepeatFirst ==
    /\ pc = "ready"
    /\ \E t \in RepeatTexts, page \in RepeatPages, metadata \in RepeatMetadata :
           chunk_text_enter(t, page, metadata)
    /\ caller' = "direct"
    /\ phase' = "first"
    /\ UNCHANGED <<config, pagesLocals, separate, separate_i, first_call,
                   alone, running, parked,
                   encoder_error, exception, collection, objects, service>>

\* the arguments and the result of the call that has just returned
returned == [text |-> text, page_number |-> page_number,
             base_metadata |-> base_metadata, chunks |-> chunks,
             between |-> <<>>]

RepeatBetween ==
    /\ pc = "done"
    /\ phase = "first"
    /\ \E t \in RepeatTexts, page \in RepeatPages, metadata \in RepeatMetadata :
           /\ chunk_text_enter(t, page, metadata)
           /\ first_call' = [returned EXCEPT !.between = <<t>>]
    /\ phase' = "between"
    /\ UNCHANGED <<config, caller, pagesLocals, separate, separate_i,
                   alone, running, parked,
                   encoder_error, exception, collection, objects, service>>

RepeatAgain ==
    /\ pc = "done"
    /\ phase \in {"first", "between"}
    /\ LET f == IF phase = "first" THEN returned ELSE first_call
       IN  /\ chunk_text_enter(f.text, f.page_number, f.base_metadata)
           /\ first_call' = f
    /\ phase' = "again"
    /\ UNCHANGED <<config, caller, pagesLocals, separate, separate_i,
                   alone, running, parked,
                   encoder_error, exception, collection, objects, service>>

NextRepeat ==
    \/ Construct
    \/ RepeatFirst
    \/ RepeatBetween
    \/ RepeatAgain
    \/ LongSentence
    \/ FlushAndAppend
    \/ AppendSentence
    \/ FinalFlush

SpecRepeat == Init /\ [][NextRepeat]_vars

(***************************************************************************)
(* Two threads call chunk_text on one TextChunker.  Each call has its own  *)
(* frame: the arguments and the locals of lines 81-89.  The frame of the   *)
(* running thread is in the variables of chunk_text, the frame of the      *)
(* other thread is parked.  Before that, each call is made alone.          *)
(***************************************************************************)
ThreadTexts == RepeatTexts

\* thread 1 calls with no other call running
AloneFirst ==
    /\ pc = "ready"
    /\ \E t \in ThreadTexts : chunk_text_enter(t, 1, {})
    /\ caller' = "direct"
    /\ phase' = "alone1"
    /\ UNCHANGED <<config, pagesLocals, separate, separate_i, first_call,
                   alone, running, parked,
                   encoder_error, exception, collection, objects, service>>

\* thread 2 calls with no other call running
AloneSecond ==
    /\ pc = "done"
    /\ phase = "alone1"
    /\ \E t \in ThreadTexts : chunk_text_enter(t, 2, {})
    /\ alone' = <<returned>>
    /\ phase' = "alone2"
    /\ UNCHANGED <<config, caller, pagesLocals, separate, separate_i, first_call,
                   running, parked,
                   encoder_error, exception, collection, objects, service>>

\* thread 1 calls again, now with thread 2 about to call
ThreadOneCalls ==
    /\ pc = "done"
    /\ phase = "alone2"
    /\ chunk_text_enter(alone[1].text, alone[1].page_number,
                        alone[1].base_metadata)
    /\ alone' = Append(alone, returned)
    /\ phase' = "concurrent"
    /\ running' = 1
    /\ parked' = <<>>
    /\ UNCHANGED <<config, caller, pagesLocals, separate, separate_i, first_call,
                   encoder_error, exception, collection, objects, service>>

\* the frame of the call in the variables of chunk_text
frame ==
    [pc |-> pc, text |-> text, page_number |-> page_number,
     base_metadata |-> base_metadata, sentences |-> sentences,
     sentence_i |-> sentence_i, current_chunk |-> current_chunk,
     current_tokens |-> current_tokens, chunk_index |-> chunk_index,
     chunks |-> chunks, seeded |-> seeded, emitted |-> emitted,
     count_calls |-> count_calls]

\* thread 2 calls while the call of thread 1 is where it is
ThreadTwoCalls ==
    /\ phase = "concurrent"
    /\ running = 1
    /\ parked = <<>>
    /\ pc \in {"loop", "done"}
    /\ chunk_text_enter(alone[2].text, alone[2].page_number,
                        alone[2].base_metadata)
    /\ parked' = <<frame>>
    /\ running' = 2
    /\ UNCHANGED <<config, caller, pagesLocals, separate, separate_i, phase,
                   first_call, alone,
                   encoder_error, exception, collection, objects, service>>

\* a mutation of resume: chunk_index is a field of the TextChunker, not a
\* local of the call
resumeSharedIndex(f) ==
    /\ pc' = f.pc
    /\ text' = f.text
    /\ page_number' = f.page_number
    /\ base_metadata' = f.base_metadata
    /\ sentences' = f.sentences
    /\ sentence_i' = f.sentence_i
    /\ current_chunk' = f.current_chunk
    /\ current_tokens' = f.current_tokens
    /\ chunk_index' = chunk_index
    /\ chunks' = f.chunks
    /\ seeded' = f.seeded
    /\ emitted' = f.emitted
    /\ count_calls' = f.count_calls

\* the call with frame f goes on: its arguments and locals are its own
resume(f) ==
    /\ pc' = f.pc
    /\ text' = f.text
    /\ page_number' = f.page_number
    /\ base_metadata' = f.base_metadata
    /\ sentences' = f.sentences
    /\ sentence_i' = f.sentence_i
    /\ current_chunk' = f.current_chunk
    /\ current_tokens' = f.current_tokens
    /\ chunk_index' = f.chunk_index
    /\ chunks' = f.chunks
    /\ seeded' = f.seeded
    /\ emitted' = f.emitted
    /\ count_calls' = f.count_calls

\* the interpreter switches to the other thread, whose call is not over
Switch ==
    /\ phase = "concurrent"
    /\ parked # <<>>
    /\ parked[1].pc = "loop"
    /\ resume(parked[1])
    /\ parked' = <<frame>>
    /\ running' = 3 - running
    /\ UNCHANGED <<config, caller, pagesLocals, separate, separate_i, phase,
                   first_call, alone,
                   encoder_error, exception, collection, objects, service>>

NextThreads ==
    \/ Construct
    \/ AloneFirst
    \/ AloneSecond
    \/ ThreadOneCalls
    \/ ThreadTwoCalls
    \/ Switch
    \/ LongSentence
    \/ FlushAndAppend
    \/ AppendSentence
    \/ FinalFlush

SpecThreads == Init /\ [][NextThreads]_vars

(***************************************************************************)
(* chunk_text and chunk_pages under every integer configuration, negative  *)
(* values too, with the interpreter running every call that was made to    *)
(* its end.                                                                *)
(***************************************************************************)
AnyConfigValues == {-1} \cup ConfigValues

ConstructAny == \E size \in AnyConfigValues, overlap \in AnyConfigValues :
                    TextChunker__init__(size, overlap)

\* the calls that are followed to their end: texts with a blank text, with
\* sentences that fit and with sentences that do not, alone and in pages
FairTexts == RepeatTexts \cup PageTexts

FairPageLists ==
    {<<>>,
     <<ExtractedPage(1, <<"A", ".", " ", "A", " ", "a", ".">>)>>,
     <<ExtractedPage(1, <<" ">>),
       ExtractedPage(2, <<"A", ".", " ", "A", ".", " ", "A", ".">>)>>,
     <<ExtractedPage(1, <<"A", ".", " ", "A", " ", "a", ".">>),
       ExtractedPage(2, <<"A", ".">>)>>}

CallChunkTextFair ==
    /\ pc = "ready"
    /\ \E t \in FairTexts : chunk_text_enter(t, 1, {})
    /\ caller' = "direct"
    /\ UNCHANGED <<config, pagesLocals, harness>>

CallChunkPagesFair ==
    \E ps \in FairPageLists, dn \in DocumentNames, cat \in Categories :
        chunk_pages_enter(ps, dn, cat)

\* the steps of a call that is running
RunningCall ==
    \/ LongSentence
    \/ FlushAndAppend
    \/ AppendSentence
    \/ FinalFlush
    \/ ChunkPage
    \/ chunk_pages_extend
    \/ chunk_pages_return

NextFair ==
    \/ ConstructAny
    \/ CallChunkTextFair
    \/ CallChunkPagesFair
    \/ RunningCall

SpecFair == Init /\ [][NextFair]_vars /\ WF_vars(RunningCall)

(***************************************************************************)
(* The token counter raises.  count_tokens (lines 57-59) calls the encoder *)
(* with no handler, and neither chunk_text nor _create_chunk, _get_overlap,*)
(* _split_long_text nor chunk_pages has a try statement: what the encoder  *)
(* raises leaves every frame on its way to the caller.                     *)
(***************************************************************************)
EncoderErrors == {"ValueError", "MemoryError"}

\* a mutation of propagate: chunk_text catches the exception and returns the
\* chunks it has
propagateSwallowed(e) ==
    /\ pc' = "done"
    /\ exception' = "none"
    /\ UNCHANGED <<locals, pagesLocals>>

\* the exception e leaves chunk_text, and chunk_pages if it made the call:
\* their locals are gone, the caller has e
propagate(e) ==
    /\ pc' = "raised"
    /\ exception' = e
    /\ text' = <<>>
    /\ page_number' = 1
    /\ base_metadata' = {}
    /\ sentences' = <<>>
    /\ sentence_i' = 1
    /\ current_chunk' = <<>>
    /\ current_tokens' = 0
    /\ chunk_index' = 0
    /\ chunks' = <<>>
    /\ seeded' = 0
    /\ emitted' = <<>>
    /\ count_calls' = 0
    /\ pages' = <<>>
    /\ page_i' = 1
    /\ all_chunks' = <<>>
    /\ document_name' = ""
    /\ category' = ""

\* the encoder raises in a count_tokens call of the iteration that is due:
\* an iteration of the sentence loop, or the final flush of a buffer
CountTokensRaises ==
    /\ pc = "loop"
    /\ sentence_i <= Len(sentences) \/ current_chunk # <<>>
    /\ \E e \in EncoderErrors :
           /\ encoder_error' = <<[error |-> e,
                                  built |-> Len(all_chunks) + Len(chunks)]>>
           /\ propagate(e)
    /\ UNCHANGED <<config, caller, separate, separate_i, phase, first_call,
                   alone, running, parked, collection, objects, service>>

NextRaise ==
    \/ Construct
    \/ CallChunkTextFair
    \/ CallChunkPagesFair
    \/ RunningCall
    \/ CountTokensRaises

SpecRaise == Init /\ [][NextRaise]_vars

(***************************************************************************)
(* The metadata of the chunks as objects.  A dict is an object on the heap *)
(* and a variable or an attribute holds its reference; "x or {}" and       *)
(* dict.copy() make a new object, an assignment passes the reference on.   *)
(* A caller calls chunk_text with a dict or with None and then changes the *)
(* metadata of one of the chunks it got.                                   *)
(***************************************************************************)
\* "x or {}" on the reference x of a dict, 0 for None: x if the dict has
\* items, else a new empty dict
dictOr(h, x) ==
    IF x = 0 \/ h[x] = {}
    THEN [heap |-> Append(h, {}), ref |-> Len(h) + 1]
    ELSE [heap |-> h, ref |-> x]

\* x.copy(): a new dict with the items of x
dictCopy(h, x) == [heap |-> Append(h, h[x]), ref |-> Len(h) + 1]

\* a mutation of createMetadata: ".copy()" is missing in _create_chunk
createMetadataShared(h, base) == dictOr(h, base)

\* the metadata of a new chunk: _create_chunk passes base_metadata.copy()
\* (line 158), TextChunk.__init__ keeps "metadata or {}" (line 25)
createMetadata(h, base) ==
    LET copied == dictCopy(h, base)
    IN  dictOr(copied.heap, copied.ref)

\* the references of the metadata of n chunks made one after the other from
\* the dict base
RECURSIVE createAll(_, _, _, _)
createAll(h, base, n, refs) ==
    IF n = 0 THEN [heap |-> h, refs |-> refs]
    ELSE LET made == createMetadata(h, base)
         IN  createAll(made.heap, base, n - 1, Append(refs, made.ref))

\* what callers give as base_metadata: nothing, an empty dict, a dict
MetadataArguments == {<<>>, <<{}>>, <<{<<"source", "a.pdf">>}>>}

MetadataKeys == {"source", "note"}
MetadataValues == {"b.pdf"}

\* the caller calls chunk_text; line 81 is "base_metadata or {}"
CallWithMetadata ==
    /\ pc = "ready"
    /\ \E t \in RepeatTexts, given \in MetadataArguments :
           LET base == dictOr(given, Len(given))
           IN  /\ chunk_text_enter(t, 1, base.heap[base.ref])
               /\ heap' = given
               /\ caller_metadata' = Len(given)
    /\ caller' = "direct"
    /\ phase' = "metadata"
    /\ UNCHANGED <<config, pagesLocals, separate, separate_i, first_call, alone,
                   running, parked, encoder_error, exception, collection,
                   chunk_metadata, mutated, service>>

\* the call returns: every chunk has got its metadata from _create_chunk;
\* for a blank text the call has returned before line 81
ReturnWithMetadata ==
    /\ pc = "done"
    /\ phase = "metadata"
    /\ LET base == IF strip(text) = <<>> THEN [heap |-> heap, ref |-> 0]
                   ELSE dictOr(heap, caller_metadata)
           made == createAll(base.heap, base.ref, Len(chunks), <<>>)
       IN  /\ heap' = made.heap
           /\ chunk_metadata' = made.refs
    /\ phase' = "returned"
    /\ UNCHANGED <<pc, config, caller, locals, pagesLocals, separate, separate_i,
                   first_call, alone, running, parked, encoder_error, exception,
                   collection, caller_metadata, mutated, service>>

\* chunk.metadata[key] = value
setItem(d, key, value) == {kv \in d : kv[1] # key} \cup {<<key, value>>}

\* del chunk.metadata[key]
delItem(d, key) == {kv \in d : kv[1] # key}

\* the caller assigns or deletes a key of the metadata of one chunk, always
\* the same chunk
MutateMetadata ==
    /\ phase = "returned"
    /\ \E k \in 1..Len(chunks), key \in MetadataKeys :
           /\ mutated \in {0, k}
           /\ mutated' = k
           /\ \/ \E value \in MetadataValues :
                     heap' = [heap EXCEPT ![chunk_metadata[k]] =
                                              setItem(@, key, value)]
              \/ /\ \E kv \in heap[chunk_metadata[k]] : kv[1] = key
                 /\ heap' = [heap EXCEPT ![chunk_metadata[k]] = delItem(@, key)]
    /\ UNCHANGED <<pc, config, caller, locals, pagesLocals, separate, separate_i,
                   phase, first_call, alone, running, parked, encoder_error,
                   exception, collection, caller_metadata, chunk_metadata,
                   service>>

NextMetadata ==
    \/ Construct
    \/ CallWithMetadata
    \/ LongSentence
    \/ FlushAndAppend
    \/ AppendSentence
    \/ FinalFlush
    \/ ReturnWithMetadata
    \/ MutateMetadata

SpecMetadata == Init /\ [][NextMetadata]_vars

(***************************************************************************)
(* _split_into_sentences on its own: a text is given, the function is      *)
(* applied to it.                                                          *)
(***************************************************************************)
\* Texts for the pattern: every text of up to MaxSplitLen characters over a
\* blank, a tab, two terminators, a capital and a digit, and texts with the
\* third terminator, a newline and a lower-case letter after a terminator.
SplitChars == {" ", "\t", ".", "?", "A", "1"}

SplitTexts ==
    UNION {[1..n -> SplitChars] : n \in 0..MaxSplitLen}
    \cup {<<"a", "!", "\n", "\n", "A", "!">>,
          <<"A", ".", " ", "1", ".", " ", "A">>,
          <<"a", "?", " ", "a", "!", "\t", " ", "A", ".", " ">>,
          <<"A", ".", "A", ".", " ", "a", ".", " ", "A">>}

InitSplit ==
    /\ pc = "split_call"
    /\ text \in Texts \cup SplitTexts
    /\ NoCall

SplitIntoSentences ==
    /\ pc = "split_call"
    /\ sentences' = _split_into_sentences(text)
    /\ pc' = "split_return"
    /\ UNCHANGED <<config, caller, text, page_number, base_metadata, sentence_i,
                   current_chunk, current_tokens, chunk_index, chunks, seeded,
                   emitted, count_calls, pagesLocals, harness>>

NextSplit == SplitIntoSentences

SpecSplit == InitSplit /\ [][NextSplit]_vars

(***************************************************************************)
(* _split_long_text on its own: a TextChunker is made, a text is given,    *)
(* the function is applied to it.  The list it returns is its local        *)
(* chunks, a list of strings.                                              *)
(***************************************************************************)
CallSplitLongText ==
    /\ pc = "ready"
    /\ \E t \in Texts : text' = t
    /\ pc' = "split_long_call"
    /\ UNCHANGED <<config, caller, page_number, base_metadata, sentences,
                   sentence_i, current_chunk, current_tokens, chunk_index, chunks,
                   seeded, emitted, count_calls, pagesLocals, harness>>

SplitLongText ==
    /\ pc = "split_long_call"
    /\ chunks' = _split_long_text(text)
    /\ pc' = "split_long_return"
    /\ UNCHANGED <<config, caller, text, page_number, base_metadata, sentences,
                   sentence_i, current_chunk, current_tokens, chunk_index, seeded,
                   emitted, count_calls, pagesLocals, harness>>

NextSplitLong ==
    \/ Construct
    \/ CallSplitLongText
    \/ SplitLongText

SpecSplitLong == Init /\ [][NextSplitLong]_vars

(***************************************************************************)
(* IngestionPipeline.ingest_document (pipeline.py 45-145).  The pipeline   *)
(* holds a TextChunker made from the settings; a call extracts the pages,  *)
(* has chunk_pages cut them, has the embedder embed the chunk texts and    *)
(* has _store_chunks add the records to the vector store.  Everything from *)
(* line 66 on is in a try statement whose handler returns a response.      *)
(***************************************************************************)
\* the variables of the callers of the chunker other than the exception they
\* have got and the services
bystanders == <<separate, separate_i, phase, first_call, alone, running, parked,
               encoder_error, objects>>
files == <<disk, inodes, uploads>>
chat == <<conversations, use_supabase, chat_history, reply>>

\* what DocumentExtractor.extract returns: the pages that are not blank, with
\* their numbers (an empty page is left out, its number is not reused)
IngestPageLists ==
    {<<ExtractedPage(1, <<"A", ".", " ", "A", " ", "a", ".">>)>>,
     <<ExtractedPage(2, <<"A", ".", " ", "A", ".", " ", "A", ".">>)>>,
     <<ExtractedPage(1, <<"A", ".", " ", "A", " ", "a", ".">>),
       ExtractedPage(2, <<"A", ".">>)>>}

\* the fields of DocumentUploadResponse that depend on the outcome
DocumentUploadResponse(status, page_count, chunk_count) ==
    [status |-> status, page_count |-> page_count, chunk_count |-> chunk_count]

\* Step 1 and the call of step 2 (lines 64-91): extract raises, or returns no
\* page and the call returns, or returns pages that are handed to chunk_pages
IngestExtract ==
    /\ pc = "ready"
    /\ ingest = NoIngest
    /\ \/ /\ pc' = "raised"
          /\ exception' = "FileNotFoundError"
          /\ ingest' = [ingest EXCEPT !.step = "extract"]
          /\ UNCHANGED <<response, caller, pagesLocals>>
       \/ /\ pc' = "ingest_returned"
          /\ ingest' = [ingest EXCEPT !.step = "extract", !.page_count = 0]
          /\ response' = DocumentUploadResponse("error", 0, 0)
          /\ UNCHANGED <<exception, caller, pagesLocals>>
       \/ \E ps \in IngestPageLists, dn \in DocumentNames, cat \in Categories :
              /\ ingest' = [ingest EXCEPT !.step = "chunk", !.page_count = Len(ps)]
              /\ pages' = ps
              /\ document_name' = dn
              /\ category' = cat
              /\ page_i' = 1
              /\ all_chunks' = <<>>
              /\ caller' = "pages"
              /\ pc' = "pages_loop"
              /\ UNCHANGED <<response, exception>>
    /\ UNCHANGED <<config, locals, bystanders, collection, files, chat>>

\* chunk_pages has returned (lines 93-107): no chunk and the call returns, or
\* get_embeddings raises, or it returns the embeddings
IngestEmbed ==
    /\ pc = "pages_done"
    /\ ingest.step = "chunk"
    /\ IF all_chunks = <<>>
       THEN /\ pc' = "ingest_returned"
            /\ ingest' = [ingest EXCEPT !.produced = 0]
            /\ response' = DocumentUploadResponse("error", ingest.page_count, 0)
            /\ UNCHANGED exception
       ELSE \/ /\ pc' = "raised"
               /\ exception' = "APIError"
               /\ ingest' = [ingest EXCEPT !.step = "embed",
                                           !.produced = Len(all_chunks)]
               /\ UNCHANGED response
            \/ /\ pc' = "embedded"
               /\ ingest' = [ingest EXCEPT !.step = "store",
                                           !.produced = Len(all_chunks)]
               /\ UNCHANGED <<response, exception>>
    /\ UNCHANGED <<config, caller, locals, pagesLocals, bystanders, collection,
                   files, chat>>

\* Step 4 (lines 111-133): add_documents raises, with the records written or
\* not, or completes and the call returns
IngestStore ==
    /\ pc = "embedded"
    /\ \E document_id \in DocumentIds :
           LET added == upsert(collection, storeRecords(document_id, all_chunks))
           IN  \/ /\ pc' = "raised"
                  /\ exception' = "ConnectionError"
                  /\ collection' \in {collection, added}
                  /\ UNCHANGED <<response, ingest>>
               \/ /\ pc' = "ingest_returned"
                  /\ collection' = added
                  /\ ingest' = [ingest EXCEPT !.step = "done", !.added = TRUE]
                  /\ response' = DocumentUploadResponse("success", ingest.page_count,
                                                        Len(all_chunks))
                  /\ UNCHANGED exception
    /\ UNCHANGED <<config, caller, locals, pagesLocals, bystanders, files, chat>>

\* a mutation of IngestCatch: the handler of line 135 raises the exception
\* again
IngestCatchReraising ==
    /\ pc = "raised"
    /\ ingest.step # "none"
    /\ pc' = "ingest_raised"
    /\ UNCHANGED <<config, caller, locals, pagesLocals, bystanders, exception,
                   collection, response, ingest, files, chat>>

\* "except Exception as e" (lines 135-145)
IngestCatch ==
    /\ pc = "raised"
    /\ ingest.step # "none"
    /\ pc' = "ingest_returned"
    /\ response' = DocumentUploadResponse("error", 0, 0)
    /\ UNCHANGED <<config, caller, locals, pagesLocals, bystanders, exception,
                   collection, ingest, files, chat>>

NextIngest ==
    \/ Construct
    \/ IngestExtract
    \/ RunningCall
    \/ CountTokensRaises
    \/ IngestEmbed
    \/ IngestStore
    \/ IngestCatch

SpecIngest == Init /\ [][NextIngest]_vars

(***************************************************************************)
(* upload_document (api/documents.py 29-81).  The handler is a coroutine:  *)
(* requests are interleaved at its awaits (opening the file, reading the   *)
(* upload and writing it, closing the file); from the end of the "async    *)
(* with" to its return it runs without giving way.  file_path is           *)
(* upload_dir joined with the file name of the upload.  A file is a        *)
(* numbered sequence of bytes, a name of upload_dir refers to a file;      *)
(* open(path, "wb") empties the file the name refers to or makes a new     *)
(* one, os.remove takes the name away while the file stays with those who  *)
(* have it open.                                                           *)
(***************************************************************************)
\* what a request leaves alone: everything but the files and the requests
besidesFiles == <<pc, config, caller, locals, pagesLocals, bystanders, exception,
                 collection, response, ingest, chat>>

\* a file name whose extension is not in ALLOWED_EXTENSIONS
RejectedNames == {"notes.txt"}

\* writing bytes at offset 0 of a file
writeAtStart(old, bytes) == bytes \o SubSeq(old, Len(bytes) + 1, Len(old))

\* the requests other than r that have the file named f open or closed and
\* have not returned yet, when it is the file the name refers to
inFlightOn(r, f) ==
    {q \in Requests \ {r} : /\ uploads[q].pc \in {"opened", "written", "closed"}
                           /\ uploads[q].filename = f
                           /\ uploads[q].handle = disk[f]}

\* lines 76-81: the handler of "except Exception" removes file_path if it
\* exists and answers 500
failAndCleanUp(r, f, c, h) ==
    /\ uploads' = [uploads EXCEPT ![r] =
                      [@ EXCEPT !.pc = "done", !.filename = f, !.content = c,
                                !.handle = h, !.outcome = "exception",
                                !.status = 500, !.removed = disk[f],
                                !.took = IF disk[f] = 0 THEN {}
                                         ELSE inFlightOn(r, f)]]
    /\ disk' = [disk EXCEPT ![f] = 0]

\* lines 48-53: the extension is not allowed, the request is answered 400
UploadReject(r) ==
    /\ uploads[r].pc = "idle"
    /\ \E f \in RejectedNames :
           uploads' = [uploads EXCEPT ![r] =
                          [@ EXCEPT !.pc = "done", !.filename = f,
                                    !.outcome = "rejected", !.status = 400]]
    /\ UNCHANGED <<disk, inodes, besidesFiles>>

\* lines 56-59: aiofiles.open(file_path, 'wb'), or it raises
UploadOpen(r) ==
    /\ uploads[r].pc = "idle"
    /\ \E f \in Filenames, c \in Contents :
           \/ /\ disk[f] = 0
              /\ inodes' = Append(inodes, <<>>)
              /\ disk' = [disk EXCEPT ![f] = Len(inodes) + 1]
              /\ uploads' = [uploads EXCEPT ![r] =
                                [@ EXCEPT !.pc = "opened", !.filename = f,
                                          !.content = c,
                                          !.handle = Len(inodes) + 1]]
           \/ /\ disk[f] # 0
              /\ inodes' = [inodes EXCEPT ![disk[f]] = <<>>]
              /\ uploads' = [uploads EXCEPT ![r] =
                                [@ EXCEPT !.pc = "opened", !.filename = f,
                                          !.content = c, !.handle = disk[f]]]
              /\ UNCHANGED disk
           \/ /\ failAndCleanUp(r, f, c, 0)
              /\ UNCHANGED inodes
    /\ UNCHANGED besidesFiles

\* lines 60-61: the upload is read and written; the bytes reach the file now
\* or stay in the buffer of the writer until it is closed; or one of the two
\* raises
UploadWrite(r) ==
    /\ uploads[r].pc = "opened"
    /\ LET u == uploads[r]
       IN  \/ /\ inodes' = [inodes EXCEPT ![u.handle] = writeAtStart(@, u.content)]
              /\ uploads' = [uploads EXCEPT ![r].pc = "written"]
              /\ UNCHANGED disk
           \/ /\ uploads' = [uploads EXCEPT ![r].pc = "written",
                                            ![r].pending = TRUE]
              /\ UNCHANGED <<disk, inodes>>
           \/ /\ failAndCleanUp(r, u.filename, u.content, u.handle)
              /\ UNCHANGED inodes
    /\ UNCHANGED besidesFiles

\* the end of the "async with": the file is closed, what is in the buffer is
\* written
UploadClose(r) ==
    /\ uploads[r].pc = "written"
    /\ LET u == uploads[r]
       IN  inodes' = IF u.pending
                     THEN [inodes EXCEPT ![u.handle] = writeAtStart(@, u.content)]
                     ELSE inodes
    /\ uploads' = [uploads EXCEPT ![r].pc = "closed", ![r].pending = FALSE]
    /\ UNCHANGED <<disk, besidesFiles>>

\* lines 66-74: IngestionPipeline() raises, or ingest_document reads
\* file_path and its response is returned, whatever its status; it returns
\* status "error" when there is no file of that name
UploadIngest(r) ==
    /\ uploads[r].pc = "closed"
    /\ LET u == uploads[r]
           found == disk[u.filename] # 0
           bytes == IF found THEN inodes[disk[u.filename]] ELSE <<>>
       IN  \/ /\ failAndCleanUp(r, u.filename, u.content, u.handle)
           \/ /\ \E status \in {"success", "error"} :
                     /\ ~found => status = "error"
                     /\ uploads' = [uploads EXCEPT ![r] =
                                       [@ EXCEPT !.pc = "done", !.ingested = TRUE,
                                                 !.found = found, !.read = bytes,
                                                 !.outcome = status,
                                                 !.status = 200]]
              /\ UNCHANGED disk
    /\ UNCHANGED <<inodes, besidesFiles>>

upload_document(r) ==
    \/ UploadReject(r)
    \/ UploadOpen(r)
    \/ UploadWrite(r)
    \/ UploadClose(r)
    \/ UploadIngest(r)

NextUpload == \E r \in Requests : upload_document(r)

SpecUpload == Init /\ [][NextUpload]_vars

(***************************************************************************)
(* ChatService (services/chat_service.py) and the handler of               *)
(* DELETE /chat/conversations/{conversation_id} (api/chat.py 73-89).       *)
(* A ChatService keeps the conversations it has seen in the dict           *)
(* self.conversations and, when Supabase is there, writes every message to *)
(* the table chat_history, which every ChatService of the application      *)
(* shares; each handler of api/chat.py makes a ChatService of its own.     *)
(* A message is its role and its content.                                  *)
(***************************************************************************)
\* what the chat service leaves alone
besidesChat == <<config, caller, locals, pagesLocals, bystanders, exception,
                collection, response, ingest, files>>

\* request.message and the answer of the RAG chain
Questions == {"q"}
Answers == {"a"}

ChatMessage(role, content) == [role |-> role, content |-> content]

\* the number of rows of the table for the conversations of a set
RECURSIVE tableRows(_)
tableRows(ids) ==
    IF ids = {} THEN 0
    ELSE LET c == CHOOSE x \in ids : TRUE
         IN  Len(chat_history[c]) + tableRows(ids \ {c})

\* the number of messages a dict of conversations holds
RECURSIVE heldMessages(_)
heldMessages(d) ==
    IF d = {} THEN 0
    ELSE LET kv == CHOOSE x \in d : TRUE
         IN  Len(kv[2]) + heldMessages(d \ {kv})

\* ChatService.__init__: create_client raises or not
ChatService__init__ ==
    /\ pc = "new"
    /\ conversations' = {}
    /\ use_supabase' \in BOOLEAN
    /\ pc' = "chat_ready"
    /\ UNCHANGED <<chat_history, reply, besidesChat>>

\* a mutation of appendExchange: the user message is not appended
appendExchangeReplyOnly(conversation, user_message, assistant_message) ==
    conversation \o <<assistant_message>>

\* lines 100-101: conversation.append(user_message),
\* conversation.append(assistant_message)
appendExchange(conversation, user_message, assistant_message) ==
    conversation \o <<user_message, assistant_message>>

\* _get_conversation(c): the list it returns and self.conversations after
\* it; loaded tells whether the query of the table succeeded
_get_conversation(c, loaded) ==
    IF \E kv \in conversations : kv[1] = c
    THEN [messages |-> dictGet(conversations, c, <<>>), cache |-> conversations]
    ELSE IF use_supabase /\ loaded
         THEN [messages |-> chat_history[c],
               cache |-> setItem(conversations, c, chat_history[c])]
         ELSE [messages |-> <<>>, cache |-> conversations]

\* the rows of the table after _save_message for each of the messages whose
\* insert does not raise
savedRows(rows, messages, saved) ==
    rows \o (IF use_supabase /\ saved[1] THEN <<messages[1]>> ELSE <<>>)
         \o (IF use_supabase /\ saved[2] THEN <<messages[2]>> ELSE <<>>)

\* ChatService.chat(request), lines 57-116: the RAG chain raises, or it
\* answers and the two messages are appended and saved
Chat ==
    /\ pc = "chat_ready"
    /\ \E c \in ConversationIds, question \in Questions, loaded \in BOOLEAN :
           LET got == _get_conversation(c, loaded)
           IN  /\ heldMessages(got.cache) + 2 <= MaxMessages
               /\ tableRows(ConversationIds) + 2 <= MaxMessages
               /\ \/ /\ conversations' = got.cache
                     /\ reply' = [op |-> "chat", conversation |-> c,
                                  result |-> "rag_raised", status |-> 0,
                                  before |-> conversations,
                                  loaded |-> got.messages, unsaved |-> 0]
                     /\ UNCHANGED chat_history
                  \/ \E answer \in Answers, saved \in [1..2 -> BOOLEAN] :
                         LET user_message == ChatMessage("user", question)
                             assistant_message == ChatMessage("assistant", answer)
                         IN  /\ use_supabase \/ saved = [k \in 1..2 |-> TRUE]
                             /\ conversations' =
                                    setItem(got.cache, c,
                                            appendExchange(got.messages, user_message,
                                                           assistant_message))
                             /\ chat_history' =
                                    [chat_history EXCEPT ![c] =
                                        savedRows(@, <<user_message,
                                                       assistant_message>>, saved)]
                             /\ reply' = [op |-> "chat", conversation |-> c,
                                          result |-> "ok", status |-> 0,
                                          before |-> conversations,
                                          loaded |-> got.messages,
                                          unsaved |-> Cardinality(
                                              {k \in 1..2 : ~saved[k]})]
    /\ UNCHANGED <<pc, use_supabase, besidesChat>>

\* ChatService.clear_conversation(c), lines 281-298: True, or False when the
\* delete of the rows raises, after the conversation has left the dict
ClearConversation ==
    /\ pc = "chat_ready"
    /\ \E c \in ConversationIds, deleted \in BOOLEAN :
           /\ use_supabase \/ deleted
           /\ conversations' = delItem(conversations, c)
           /\ chat_history' = IF use_supabase /\ deleted
                              THEN [chat_history EXCEPT ![c] = <<>>]
                              ELSE chat_history
           /\ reply' = [op |-> "clear", conversation |-> c,
                        result |-> IF deleted THEN "true" ELSE "false",
                        status |-> 0, before |-> conversations,
                        loaded |-> <<>>, unsaved |-> 0]
    /\ UNCHANGED <<pc, use_supabase, besidesChat>>

\* another ChatService, made by a handler of api/chat.py for a request, has
\* answered a message of a conversation and saved the two messages
OtherChatService ==
    /\ \E c \in ConversationIds, question \in Questions, answer \in Answers :
           /\ tableRows(ConversationIds) + 2 <= MaxMessages
           /\ chat_history' = [chat_history EXCEPT ![c] =
                                  @ \o <<ChatMessage("user", question),
                                         ChatMessage("assistant", answer)>>]
    /\ UNCHANGED <<pc, conversations, use_supabase, reply, besidesChat>>

\* lines 82-89 of api/chat.py: the success body for True; for False the
\* HTTPException of line 85 is raised inside the try statement, is an
\* Exception, and the handler of line 87 raises the one with status 500 in
\* its place; the same handler for an exception of the service
deleteStatus(result) == IF result = "true" THEN 200 ELSE 500

\* the handler of DELETE /chat/conversations/{conversation_id}: it makes a
\* ChatService, which may raise, and calls clear_conversation on it
delete_conversation ==
    /\ \E c \in ConversationIds,
          result \in {"true", "false", "init_raised"}, supabase \in BOOLEAN :
           /\ result = "false" => supabase
           /\ chat_history' = IF result = "true" /\ supabase
                              THEN [chat_history EXCEPT ![c] = <<>>]
                              ELSE chat_history
           /\ reply' = [op |-> "delete", conversation |-> c, result |-> result,
                        status |-> deleteStatus(result), before |-> {},
                        loaded |-> <<>>, unsaved |-> 0]
    /\ UNCHANGED <<pc, conversations, use_supabase, besidesChat>>

NextChat ==
    \/ ChatService__init__
    \/ Chat
    \/ ClearConversation
    \/ OtherChatService
    \/ delete_conversation

SpecChat == Init /\ [][NextChat]_vars

(***************************************************************************)
(* Vocabulary of the properties.                                           *)
(***************************************************************************)
\* the configuration the specification calls valid
ValidConfig == chunk_size > 0 /\ 0 <= chunk_overlap /\ chunk_overlap < chunk_size

\* kinds of chunks emitted from the sentence buffer
BufferKinds == {"flush", "long_flush", "final"}

\* token count of a run of sentences as the sum of the sentences' counts
sentenceTokens(buf) == Sum([k \in 1..Len(buf) |-> count_tokens(sentences[buf[k]])])

\* the last n elements of a sequence
lastN(q, n) == SubSeq(q, Len(q) - n + 1, Len(q))

\* the elements of a sequence as a set
Range(q) == {q[k] : k \in 1..Len(q)}

\* sum of the per-word counts _split_long_text packs with
wordTotal(words) == Sum([k \in 1..Len(words) |-> count_tokens(words[k] \o <<" ">>)])

\* no sentence of the running call is longer than chunk_size
NoLongSentence == \A i \in 1..Len(sentences) : count_tokens(sentences[i]) <= chunk_size

(***************************************************************************)
(* C1: under a valid configuration every chunk emitted from the sentence   *)
(* buffer has a token count (sum of its sentences' counts) <= chunk_size,  *)
(* chunks seeded with overlap included.                                    *)
(***************************************************************************)
C1_TokenBound ==
    ValidConfig =>
        \A k \in 1..Len(emitted) :
            emitted[k].kind \in BufferKinds =>
                sentenceTokens(emitted[k].sentences) <= chunk_size

(***************************************************************************)
(* C2: when no sentence is longer than chunk_size, the chunks of a         *)
(* finished chunk_text call, each without the leading sentences it got as  *)
(* overlap, concatenate to exactly the sentences of                        *)
(* _split_into_sentences in order; the last sentence is in the last chunk. *)
(***************************************************************************)
\* the sentences of the k-th chunk that are not carried-over overlap
freshPart(k) ==
    SubSeq(emitted[k].sentences, emitted[k].seeded + 1, Len(emitted[k].sentences))

C2_Coverage ==
    (pc = "done" /\ NoLongSentence) =>
        /\ Len(chunks) = Len(emitted)
        /\ \A k \in 1..Len(chunks) :
               chunks[k].text = bufferText(emitted[k].sentences)
        /\ Flatten([k \in 1..Len(emitted) |-> freshPart(k)])
               = [i \in 1..Len(sentences) |-> i]
        /\ sentences # <<>> =>
               /\ chunks # <<>>
               /\ Len(sentences) \in Range(emitted[Len(emitted)].sentences)

\* a finished call of three or more sentences, none long, with a chunk that
\* starts with overlap
C2_Witness ==
    /\ pc = "done"
    /\ NoLongSentence
    /\ Len(sentences) >= 3
    /\ \E k \in 1..Len(emitted) : emitted[k].seeded > 0

(***************************************************************************)
(* C3: the sentences of every chunk emitted from the buffer, and of the    *)
(* buffer itself, are a contiguous run of the input sentences in           *)
(* increasing position, also behind carried-over overlap.                  *)
(***************************************************************************)
Contiguous(buf) == \A j \in 1..(Len(buf) - 1) : buf[j + 1] = buf[j] + 1

C3_ContiguousRun ==
    /\ Contiguous(current_chunk)
    /\ Range(current_chunk) \subseteq 1..Len(sentences)
    /\ \A k \in 1..Len(emitted) :
           /\ Contiguous(emitted[k].sentences)
           /\ emitted[k].kind \in BufferKinds =>
                  chunks[k].text = bufferText(emitted[k].sentences)

\* an emitted chunk that starts with two overlap sentences and has a new one
C3_Witness ==
    \E k \in 1..Len(emitted) :
        /\ emitted[k].kind \in BufferKinds
        /\ emitted[k].seeded >= 2
        /\ Len(emitted[k].sentences) > emitted[k].seeded

(***************************************************************************)
(* C4: the chunk_index values of the chunks of a call are 0, 1, ..., n-1   *)
(* in output order, whatever mix of flushes produced them.                 *)
(***************************************************************************)
C4_IndexContiguity ==
    \A k \in 1..Len(chunks) : chunks[k].chunk_index = k - 1

\* a finished call that made a normal flush, a long-sentence flush and
\* sub-chunks
C4_Witness ==
    /\ pc = "done"
    /\ {"flush", "long_flush", "sub"} \subseteq {emitted[k].kind : k \in 1..Len(emitted)}

(***************************************************************************)
(* C5: the sentences that seed the buffer after a flush are a suffix of    *)
(* the flushed chunk in their order, of at most chunk_overlap tokens; so   *)
(* the sentences two consecutive chunks share never total more than        *)
(* chunk_overlap tokens.                                                   *)
(***************************************************************************)
\* the first n sentences of buf are the last n of the chunk flushed before
SeededFrom(buf, n, k) ==
    n > 0 =>
        /\ k >= 1
        /\ emitted[k].kind = "flush"
        /\ n <= Len(emitted[k].sentences)
        /\ n <= Len(buf)
        /\ SubSeq(buf, 1, n) = lastN(emitted[k].sentences, n)
        /\ sentenceTokens(SubSeq(buf, 1, n)) <= chunk_overlap

\* the sentences chunk k and chunk k + 1 have in common
Shared(k) ==
    SelectSeq(emitted[k + 1].sentences,
              LAMBDA p : p \in Range(emitted[k].sentences))

C5_OverlapBound ==
    /\ pc = "loop" => SeededFrom(current_chunk, seeded, Len(emitted))
    /\ \A k \in 1..Len(emitted) :
           SeededFrom(emitted[k].sentences, emitted[k].seeded, k - 1)
    /\ \A k \in 1..(Len(emitted) - 1) :
           (emitted[k].kind \in BufferKinds /\ emitted[k + 1].kind \in BufferKinds) =>
               /\ Shared(k) = SubSeq(emitted[k + 1].sentences, 1, emitted[k + 1].seeded)
               /\ sentenceTokens(Shared(k)) <= chunk_overlap

\* the buffer was just seeded with two overlap sentences, a proper suffix of
\* the flushed chunk
C5_Witness ==
    /\ pc = "loop"
    /\ seeded = 2
    /\ Len(emitted) >= 1
    /\ Len(emitted[Len(emitted)].sentences) > 2
    /\ ValidConfig

(***************************************************************************)
(* C6: at a sentence longer than chunk_size a non-empty buffer is emitted  *)
(* right before the first sub-chunk, the sub-chunks hold the words of that *)
(* sentence and nothing else, and no chunk after them holds a sentence     *)
(* that precedes the long sentence.                                        *)
(***************************************************************************)
IsSubOf(k, p) == emitted[k].kind = "sub" /\ emitted[k].sentences = <<p>>

\* the words of the sub-chunks of sentence p, in output order
subChunkWords(p) ==
    Flatten([k \in 1..Len(emitted) |->
                IF IsSubOf(k, p) THEN split(chunks[k].text) ELSE <<>>])

\* sentence p was met with a non-empty buffer: the sentence before it was
\* not a long one
BufferedBefore(p) == p > 1 /\ count_tokens(sentences[p - 1]) <= chunk_size

C6_LongSentence ==
    \A k \in 1..Len(emitted) :
        emitted[k].kind = "sub" =>
            LET p == emitted[k].sentences[1]
                first == k = 1 \/ ~IsSubOf(k - 1, p)
            IN  /\ count_tokens(sentences[p]) > chunk_size
                /\ (first /\ BufferedBefore(p)) =>
                       /\ k > 1
                       /\ emitted[k - 1].kind \in BufferKinds
                       /\ emitted[k - 1].sentences[Len(emitted[k - 1].sentences)] = p - 1
                       /\ chunks[k - 1].text = bufferText(emitted[k - 1].sentences)
                /\ (first /\ ~BufferedBefore(p) /\ k > 1) =>
                       emitted[k - 1].kind = "sub"
                /\ subChunkWords(p) = split(sentences[p])
                /\ \A j \in (k + 1)..Len(emitted) :
                       \A q \in Range(emitted[j].sentences) : q >= p
                /\ \A j \in (k + 1)..Len(emitted) :
                       emitted[j].kind \in BufferKinds =>
                           \A q \in Range(emitted[j].sentences) : q > p
                /\ pc = "loop" => \A q \in Range(current_chunk) : q > p

\* a buffer chunk, then two sub-chunks of a long sentence, then a chunk of
\* the sentence after it
C6_Witness ==
    /\ ValidConfig
    /\ Len(emitted) >= 4
    /\ emitted[1].kind = "long_flush"
    /\ IsSubOf(2, 2)
    /\ IsSubOf(3, 2)
    /\ emitted[4].kind = "final"

(***************************************************************************)
(* C7: with chunk_size > 0 every sub-chunk of a long sentence is a single  *)
(* word or has a per-word token total <= chunk_size (so one above          *)
(* chunk_size is a single word that is above it alone), and the words of   *)
(* the sub-chunks are the words of the sentence: no word is split.         *)
(***************************************************************************)
C7_SubChunkBound ==
    chunk_size > 0 =>
        \A k \in 1..Len(emitted) :
            emitted[k].kind = "sub" =>
                LET words == split(chunks[k].text)
                IN  /\ Len(words) >= 1
                    /\ Len(words) = 1 \/ wordTotal(words) <= chunk_size
                    /\ wordTotal(words) > chunk_size =>
                           count_tokens(words[1] \o <<" ">>) > chunk_size
                    /\ subChunkWords(emitted[k].sentences[1])
                           = split(sentences[emitted[k].sentences[1]])

\* a sub-chunk of two words next to a sub-chunk of one word
C7_Witness ==
    /\ chunk_size > 0
    /\ \E k \in 1..Len(emitted) :
           emitted[k].kind = "sub" /\ Len(split(chunks[k].text)) >= 2
    /\ \E k \in 1..Len(emitted) :
           emitted[k].kind = "sub" /\ Len(split(chunks[k].text)) = 1

(***************************************************************************)
(* C8: a text of one sentence whose token count is above chunk_size        *)
(* gives at least two chunks, none with a token_count above chunk_size     *)
(* (stated here for valid configurations only: it fails even there).       *)
(***************************************************************************)
OneLongSentence ==
    /\ pc = "done"
    /\ Len(sentences) = 1
    /\ count_tokens(sentences[1]) > chunk_size

C8_Original ==
    (OneLongSentence /\ ValidConfig) =>
        /\ Len(chunks) >= 2
        /\ \A k \in 1..Len(chunks) : chunks[k].token_count <= chunk_size

(***************************************************************************)
(* C8 as amended: a text of one sentence whose token count is above        *)
(* chunk_size gives at least one chunk, at least two when the sentence has *)
(* two or more words whose per-word counts total more than chunk_size, and *)
(* a chunk with a token_count above chunk_size is a single word.           *)
(***************************************************************************)
C8_Amended ==
    OneLongSentence =>
        /\ Len(chunks) >= 1
        /\ (Len(split(sentences[1])) >= 2
            /\ wordTotal(split(sentences[1])) > chunk_size) => Len(chunks) >= 2
        /\ \A k \in 1..Len(chunks) :
               chunks[k].token_count > chunk_size => Len(split(chunks[k].text)) = 1

\* one long sentence of several words, cut into two or more chunks
C8_Witness ==
    /\ OneLongSentence
    /\ ValidConfig
    /\ Len(split(sentences[1])) >= 3
    /\ Len(chunks) >= 2
    /\ \E k \in 1..Len(chunks) : Len(split(chunks[k].text)) >= 2

(***************************************************************************)
(* C9: a TextChunker is never constructed with chunk_size <= 0 or with     *)
(* chunk_overlap >= chunk_size, so chunk_text never runs under such a      *)
(* configuration.                                                          *)
(***************************************************************************)
C9_RejectsBadConfig == pc # "new" => ValidConfig

(***************************************************************************)
(* C10: for an empty or blank text chunk_text returns no chunk and calls   *)
(* the token counter not once, and chunk_pages adds no chunk for such a    *)
(* page.                                                                   *)
(***************************************************************************)
BlankReturned == pc = "done" /\ strip(text) = <<>>

C10_BlankInput ==
    /\ [](BlankReturned => (chunks = <<>> /\ count_calls = 0))
    /\ [][(BlankReturned /\ caller = "pages") => all_chunks' = all_chunks]_vars

\* chunk_pages has gone past a blank page that follows a page with chunks
C10_Witness ==
    /\ pc = "pages_loop"
    /\ page_i = 3
    /\ strip(pages[2].text) = <<>>
    /\ pages[2].text # <<>>
    /\ all_chunks # <<>>

(***************************************************************************)
(* C20: for a sentence that is not oversized, the buffer is flushed before *)
(* the sentence is appended exactly when the buffer is non-empty and the   *)
(* running total plus the tokens of the sentence is strictly above         *)
(* chunk_size; a sentence that brings the total to exactly chunk_size      *)
(* joins the buffer.  Three sentences of one size s with chunk_size = 2s   *)
(* and chunk_overlap < s give the two chunks [s1 s2] and [s3], the second  *)
(* without overlap.                                                        *)
(***************************************************************************)
\* one iteration of the loop on a sentence that is not oversized
C20_Step ==
    (/\ pc = "loop"
     /\ sentence_i <= Len(sentences)
     /\ count_tokens(sentences[sentence_i]) <= chunk_size)
    => LET tokens == count_tokens(sentences[sentence_i])
       IN  /\ current_tokens = sentenceTokens(current_chunk)
           /\ IF current_chunk # <<>> /\ current_tokens + tokens > chunk_size
              THEN /\ Len(chunks') = Len(chunks) + 1
                   /\ chunks'[Len(chunks')].text = bufferText(current_chunk)
                   /\ emitted'[Len(chunks')].sentences = current_chunk
                   /\ current_chunk' # <<>>
                   /\ current_chunk'[Len(current_chunk')] = sentence_i
              ELSE /\ chunks' = chunks
                   /\ current_chunk' = Append(current_chunk, sentence_i)
                   /\ current_tokens' = current_tokens + tokens

\* a finished call on three sentences of one size s, chunk_size = 2s and
\* chunk_overlap < s
ThreeEqualSentences ==
    /\ pc = "done"
    /\ Len(sentences) = 3
    /\ \E s \in 1..MaxChunkSize :
           /\ \A k \in 1..3 : count_tokens(sentences[k]) = s
           /\ chunk_size = 2 * s
           /\ chunk_overlap < s

C20_Example ==
    ThreeEqualSentences
    => /\ Len(chunks) = 2
       /\ emitted[1].sentences = <<1, 2>>
       /\ emitted[2].sentences = <<3>>
       /\ emitted[2].seeded = 0
       /\ chunks[1].text = sentences[1] \o <<" ">> \o sentences[2]
       /\ chunks[2].text = sentences[3]

C20_FlushRule == [][C20_Step]_vars /\ []C20_Example

C20_Witness == ThreeEqualSentences /\ Len(chunks) = 2

(***************************************************************************)
(* C15: every chunk chunk_pages returns carries the page_number of the     *)
(* page its text was cut from and a metadata mapping of the document_name  *)
(* and the category given to chunk_pages and the source of that page; so   *)
(* do the chunks of the page that is being cut, whether they come from a   *)
(* flush, from the fallback split or from the final flush.                 *)
(***************************************************************************)
\* the words w are a run of the words ws
IsInfix(w, ws) ==
    \E i \in 0..(Len(ws) - Len(w)) : SubSeq(ws, i + 1, i + Len(w)) = w

\* chunk c was cut from page and is labelled with it
LabelledWith(c, page) ==
    /\ c.page_number = page.page_number
    /\ c.metadata = {<<"document_name", document_name>>,
                     <<"category", category>>,
                     <<"source", dictGet(page.metadata, "source", "")>>}
    /\ IsInfix(split(c.text), split(page.text))

C15_PageLabels ==
    caller = "pages"
    => /\ \A k \in 1..Len(all_chunks) :
              \E n \in 1..Len(pages) :
                  /\ all_chunks[k].page_number = n
                  /\ LabelledWith(all_chunks[k], pages[n])
       /\ pc \in {"loop", "done"}
          => \A k \in 1..Len(chunks) : LabelledWith(chunks[k], pages[page_i])

\* two pages: a flushed chunk and two sub-chunks from the first, a final
\* chunk from the second
C15_Witness ==
    /\ pc = "pages_done"
    /\ Len(pages) = 2
    /\ Len(all_chunks) = 4
    /\ all_chunks[3].page_number = 1
    /\ all_chunks[4].page_number = 2
    /\ all_chunks[3].metadata # all_chunks[4].metadata
    /\ emitted[Len(emitted)].kind = "final"

(***************************************************************************)
(* C14: chunk_pages returns the concatenation, in page order, of what      *)
(* chunk_text returns for each page on its own; chunk_index restarts at 0  *)
(* on every page and the first chunk of a page starts with the first words *)
(* of that page, with no sentence of an earlier page before them.          *)
(***************************************************************************)
\* position k of all_chunks is the first chunk of its page
FirstOfPage(k) ==
    k = 1 \/ all_chunks[k - 1].page_number # all_chunks[k].page_number

IsPrefix(w, ws) == Len(w) <= Len(ws) /\ SubSeq(ws, 1, Len(w)) = w

C14_PageByPage ==
    /\ pc = "separate_done" => all_chunks = separate
    /\ caller \in {"pages", "separate"}
       => \A k \in 1..Len(all_chunks) :
              IF FirstOfPage(k)
              THEN /\ all_chunks[k].chunk_index = 0
                   /\ k > 1 => all_chunks[k - 1].page_number
                                   < all_chunks[k].page_number
                   /\ IsPrefix(split(all_chunks[k].text),
                               split(pages[all_chunks[k].page_number].text))
              ELSE all_chunks[k].chunk_index = all_chunks[k - 1].chunk_index + 1

\* two pages with chunks, the first with more than one, cut both ways
C14_Witness ==
    /\ pc = "separate_done"
    /\ Len(pages) = 2
    /\ Len(separate) > 2
    /\ separate[2].page_number = 1
    /\ separate[Len(separate)].page_number = 2
    /\ separate[Len(separate)].chunk_index = 0

(***************************************************************************)
(* C18: every element _split_into_sentences returns is non-empty and has   *)
(* no blank at either end; the elements are pieces of the text in the      *)
(* order of the text, with all its words; a text that is blank after       *)
(* trimming gives no element.                                              *)
(***************************************************************************)
C18_Sentences ==
    pc = "split_return"
    => /\ \A k \in 1..Len(sentences) :
              /\ sentences[k] # <<>>
              /\ sentences[k][1] \notin Whitespace
              /\ sentences[k][Len(sentences[k])] \notin Whitespace
              /\ IsInfix(sentences[k], text)
       /\ Flatten([k \in 1..Len(sentences) |-> split(sentences[k])]) = split(text)
       /\ (\A i \in 1..Len(text) : text[i] \in Whitespace) => sentences = <<>>

\* a text with blanks in front, cut in two sentences or more
C18_Witness ==
    /\ pc = "split_return"
    /\ Len(sentences) >= 2
    /\ text[1] \in Whitespace
    /\ text[Len(text)] \in Whitespace

(***************************************************************************)
(* C11: a call of chunk_text with the arguments of an earlier call on the  *)
(* same TextChunker returns a list equal to the earlier one element by     *)
(* element (text, chunk_index, page_number, token_count, metadata),        *)
(* whatever call was made in between.                                      *)
(***************************************************************************)
C11_Deterministic ==
    (pc = "done" /\ phase = "again")
    => /\ Len(chunks) = Len(first_call.chunks)
       /\ \A k \in 1..Len(chunks) :
              /\ chunks[k].text = first_call.chunks[k].text
              /\ chunks[k].chunk_index = first_call.chunks[k].chunk_index
              /\ chunks[k].page_number = first_call.chunks[k].page_number
              /\ chunks[k].token_count = first_call.chunks[k].token_count
              /\ chunks[k].metadata = first_call.chunks[k].metadata

\* the repeated call has returned two chunks or more, after a call with
\* another text in between
C11_Witness ==
    /\ pc = "done"
    /\ phase = "again"
    /\ Len(chunks) >= 2
    /\ first_call.between \notin {<<>>, <<first_call.text>>}

(***************************************************************************)
(* C12: when two chunk_text calls on one TextChunker run interleaved, each *)
(* returns the list it returned when it ran alone, and no step of a call   *)
(* changes chunk_size or chunk_overlap.                                    *)
(***************************************************************************)
\* the call of the running thread, or the parked one, has returned what the
\* call of that thread returned alone
C12_Returns ==
    phase = "concurrent"
    => /\ pc = "done" => chunks = alone[running].chunks
       /\ (parked # <<>> /\ parked[1].pc = "done")
          => parked[1].chunks = alone[3 - running].chunks

C12_ConfigStep == pc # "new" => (chunk_size' = chunk_size /\ chunk_overlap' = chunk_overlap)

C12_Concurrent == []C12_Returns /\ [][C12_ConfigStep]_vars

\* both calls have returned chunks, and each thread ran while the call of
\* the other was in its loop
C12_Witness ==
    /\ phase = "concurrent"
    /\ pc = "done"
    /\ parked # <<>>
    /\ parked[1].pc = "done"
    /\ running = 1
    /\ Len(chunks) >= 2
    /\ Len(parked[1].chunks) >= 2

(***************************************************************************)
(* C13: every call of chunk_text and every call of chunk_pages returns,    *)
(* under every integer configuration, chunk_overlap >= chunk_size and      *)
(* chunk_size <= 0 included.                                               *)
(***************************************************************************)
C13_Terminates ==
    /\ (pc = "loop") ~> (pc = "done")
    /\ (pc = "pages_loop") ~> (pc = "pages_done")

\* a call has returned chunks under a configuration that is not valid
C13_Witness ==
    /\ pc \in {"done", "pages_done"}
    /\ chunk_size <= 0
    /\ chunk_overlap >= chunk_size
    /\ Len(chunks) >= 3

(***************************************************************************)
(* C17: when the token counter raises during a chunk_text call, the caller *)
(* gets that very exception and no chunk list, whatever chunks the call    *)
(* had made; nothing is run after it, no second attempt with the same or   *)
(* another encoding.                                                       *)
(***************************************************************************)
C17_Propagated ==
    encoder_error # <<>>
    => /\ pc = "raised"
       /\ exception = encoder_error[1].error
       /\ chunks = <<>>
       /\ all_chunks = <<>>

C17_NoPartialResult ==
    /\ []C17_Propagated
    /\ [](exception # "none" => encoder_error # <<>>)
    /\ [][pc # "raised"]_vars

\* the encoder raised after two chunks or more had been made
C17_Witness ==
    /\ pc = "raised"
    /\ exception = "ValueError"
    /\ encoder_error[1].built >= 2

(***************************************************************************)
(* C19: within one ingest_document call no two chunks of the document are  *)
(* stored under one identifier: the store holds one record per chunk, also *)
(* when chunk_index restarts at 0 on every page.                           *)
(***************************************************************************)
C19_DistinctIds ==
    pc = "stored"
    => /\ Cardinality(collection) = Len(all_chunks)
       /\ Cardinality({r.id : r \in collection}) = Len(all_chunks)
       /\ \A k \in 1..Len(all_chunks) :
              \E r \in collection :
                  /\ r.text = all_chunks[k].text
                  /\ r.page_number = all_chunks[k].page_number
                  /\ r.chunk_index = all_chunks[k].chunk_index

\* the chunks of a document of two pages are stored, two of them with the
\* same chunk_index
C19_Witness ==
    /\ pc = "stored"
    /\ \E j, k \in 1..Len(all_chunks) :
           /\ j < k
           /\ all_chunks[j].chunk_index = all_chunks[k].chunk_index
           /\ all_chunks[j].page_number # all_chunks[k].page_number

(***************************************************************************)
(* C16: every chunk of a chunk_text call has a metadata mapping of its     *)
(* own: after key assignments and deletions on the metadata of one chunk,  *)
(* the metadata of every other chunk of the call is what it was made with, *)
(* and so is the dict the caller gave as base_metadata, whether that dict  *)
(* has items, is empty or was not given.                                   *)
(***************************************************************************)
C16_OwnMetadata ==
    phase = "returned"
    => /\ \A k \in 1..Len(chunks) :
              k # mutated => heap[chunk_metadata[k]] = chunks[k].metadata
       /\ caller_metadata # 0 => heap[caller_metadata] = base_metadata
       /\ \A j, k \in 1..Len(chunks) :
              j # k => chunk_metadata[j] # chunk_metadata[k]

\* the metadata of one of two chunks or more, made from a dict with items,
\* has been changed
C16_Witness ==
    /\ phase = "returned"
    /\ Len(chunks) >= 2
    /\ mutated # 0
    /\ caller_metadata # 0
    /\ base_metadata # {}
    /\ heap[chunk_metadata[mutated]] # chunks[mutated].metadata

(***************************************************************************)
(* C21: what _get_overlap returns for a flushed buffer is the longest run  *)
(* of its last sentences whose token counts, added up from the last one    *)
(* backwards, stay <= chunk_overlap: the run is the whole buffer or the    *)
(* sentence right before it would bring the total above chunk_overlap,     *)
(* also when an earlier sentence would fit; the token total returned is    *)
(* the sum of the token counts of the run.                                 *)
(***************************************************************************)
\* how many sentences _get_overlap put in the buffer after the flush that
\* made chunk k
seededAfter(k) == IF k < Len(emitted) THEN emitted[k + 1].seeded ELSE seeded

C21_GreedySuffix ==
    \A k \in 1..Len(emitted) :
        emitted[k].kind = "flush" =>
            LET flushed == emitted[k].sentences
                n == seededAfter(k)
                run == lastN(flushed, n)
                overlap == _get_overlap(flushed, sentenceTokens(flushed))
            IN  /\ n <= Len(flushed)
                /\ overlap.sentences = run
                /\ overlap.tokens = sentenceTokens(run)
                /\ sentenceTokens(run) <= chunk_overlap
                /\ \/ n = Len(flushed)
                   \/ sentenceTokens(run)
                        + count_tokens(sentences[flushed[Len(flushed) - n]])
                      > chunk_overlap
                /\ (k < Len(emitted) \/ pc = "loop")
                   => SubSeq(IF k < Len(emitted) THEN emitted[k + 1].sentences
                                                 ELSE current_chunk, 1, n) = run

\* a flush left no overlap because the last sentence does not fit, while the
\* sentence before it would fit
C21_Witness ==
    /\ pc = "loop"
    /\ Len(emitted) >= 1
    /\ emitted[Len(emitted)].kind = "flush"
    /\ seeded = 0
    /\ chunk_overlap > 0
    /\ LET flushed == emitted[Len(emitted)].sentences
       IN  /\ Len(flushed) >= 2
           /\ count_tokens(sentences[flushed[1]]) <= chunk_overlap

(***************************************************************************)
(* C22: the words of the sub-chunks _split_long_text returns, one          *)
(* sub-chunk after the other, are the words of the text; no sub-chunk is   *)
(* empty; a sub-chunk starts at a word after the first if and only if the  *)
(* per-word total of the sub-chunk so far plus that word is above          *)
(* chunk_size.                                                             *)
(***************************************************************************)
\* the position, in the words of the text, of the first word of sub-chunk k
subStart(k) ==
    1 + Sum([j \in 1..(k - 1) |-> Len(split(chunks[j]))])

\* the position of the first word of the sub-chunk that holds word i
startOf(i) ==
    LET starts == {subStart(k) : k \in 1..Len(chunks)}
    IN  CHOOSE b \in starts : b <= i /\ \A c \in starts : c <= i => c <= b

C22_GreedyWords ==
    pc = "split_long_return"
    => LET words == split(text)
       IN  /\ Flatten([k \in 1..Len(chunks) |-> split(chunks[k])]) = words
           /\ \A k \in 1..Len(chunks) : split(chunks[k]) # <<>>
           /\ \A k \in 1..Len(chunks) : chunks[k] = join(split(chunks[k]))
           /\ \A i \in 2..Len(words) :
                  (\E k \in 1..Len(chunks) : subStart(k) = i)
                  <=> wordTotal(SubSeq(words, startOf(i - 1), i - 1))
                        + count_tokens(words[i] \o <<" ">>) > chunk_size

\* two sub-chunks or more, one of two words, one closed by a word that would
\* have brought the total above chunk_size, one filled to chunk_size
C22_Witness ==
    /\ pc = "split_long_return"
    /\ chunk_size > 0
    /\ Len(chunks) >= 2
    /\ \E k \in 1..Len(chunks) :
           /\ Len(split(chunks[k])) >= 2
           /\ wordTotal(split(chunks[k])) = chunk_size

(***************************************************************************)
(* C23: the token_count of every chunk of chunk_text is count_tokens of    *)
(* the text of the chunk, which for a chunk made from the buffer is its    *)
(* sentences joined by single blanks; a text of one sentence that fits in  *)
(* chunk_size gives one chunk, with chunk_index 0 and the token count of   *)
(* the sentence.                                                           *)
(***************************************************************************)
\* the running call has one sentence, and it fits
OneFittingSentence ==
    /\ pc = "done"
    /\ Len(sentences) = 1
    /\ count_tokens(sentences[1]) <= chunk_size

C23_TokenCount ==
    /\ \A k \in 1..Len(chunks) :
           /\ chunks[k].token_count = count_tokens(chunks[k].text)
           /\ emitted[k].kind \in BufferKinds
              => chunks[k].text = bufferText(emitted[k].sentences)
    /\ OneFittingSentence
       => /\ Len(chunks) = 1
          /\ chunks[1].chunk_index = 0
          /\ chunks[1].text = sentences[1]
          /\ chunks[1].token_count = count_tokens(sentences[1])

\* a text of one sentence with blanks around it has been cut
C23_Witness ==
    /\ OneFittingSentence
    /\ Len(chunks) = 1
    /\ text # sentences[1]
    /\ Len(split(sentences[1])) >= 2

(***************************************************************************)
(* C24: _split_into_sentences cuts the text at the positions where one of  *)
(* . ! ? is followed by one or more blanks and then a letter of A-Z, and   *)
(* nowhere else: the sentences are the trimmed pieces between these        *)
(* positions, a terminator followed by blanks and a lower-case letter, a   *)
(* digit or the end of the text ends no sentence, and a text with no such  *)
(* position comes back as a single sentence.                               *)
(***************************************************************************)
\* index j holds a capital and everything from index i up to it is blank
BlanksThenCapital(s, i, j) ==
    /\ j \in (i + 1)..Len(s)
    /\ s[j] \in Uppercase
    /\ \A m \in i..(j - 1) : s[m] \in Whitespace

\* the positions of the claim: the first blank after a terminator, with
\* nothing but blanks between the terminator and a capital
Boundaries(s) ==
    {i \in 2..Len(s) : /\ s[i - 1] \in SentenceEnd
                       /\ \E j \in (i + 1)..Len(s) : BlanksThenCapital(s, i, j)}

\* the k-th smallest element of a set of numbers
RECURSIVE Nth(_, _)
Nth(S, k) ==
    LET least == CHOOSE x \in S : \A y \in S : x <= y
    IN IF k = 1 THEN least ELSE Nth(S \ {least}, k - 1)

\* the trimmed pieces of s between the positions of the claim
PiecesBetween(s) ==
    LET B == Boundaries(s)
        n == Cardinality(B)
        capital(i) == CHOOSE j \in (i + 1)..Len(s) : BlanksThenCapital(s, i, j)
        from(k) == IF k = 1 THEN 1 ELSE capital(Nth(B, k - 1))
        to(k) == IF k = n + 1 THEN Len(s) ELSE Nth(B, k) - 1
    IN [k \in 1..(n + 1) |-> strip(SubSeq(s, from(k), to(k)))]

IsBlank(s) == \A i \in 1..Len(s) : s[i] \in Whitespace

\* the statement as it stands, a blank text included
C24_Original ==
    pc = "split_return"
    => /\ sentences = PiecesBetween(text)
       /\ Boundaries(text) = {} => Len(sentences) = 1

\* the statement for the texts that are not blank; a blank text has no
\* position of the claim and comes back as no sentence at all
C24_Amended ==
    pc = "split_return"
    => /\ ~IsBlank(text) => sentences = PiecesBetween(text)
       /\ ~IsBlank(text) /\ Boundaries(text) = {} => Len(sentences) = 1
       /\ IsBlank(text) => sentences = <<>>

\* a text cut at one position, with a terminator before it that is followed
\* by a blank and a digit or a lower-case letter, and one after it
C24_Witness ==
    /\ pc = "split_return"
    /\ Len(sentences) = 2
    /\ \E i \in 2..Len(text) :
           /\ text[i - 1] \in SentenceEnd
           /\ text[i] \in Whitespace
           /\ i < Len(text)
           /\ text[i + 1] \notin Whitespace \cup Uppercase \cup SentenceEnd
           /\ \E j \in Boundaries(text) : j > i

(***************************************************************************)
(* C25: every chunk chunk_text emits has a sentence, or as a sub-chunk of  *)
(* a long sentence a word, that no earlier chunk of the call has: the      *)
(* buffer is not made a chunk while it is empty or holds nothing but the   *)
(* sentences carried over, and no chunk has an empty text, whatever        *)
(* chunk_size and chunk_overlap are.                                       *)
(***************************************************************************)
\* sentence p is in none of the chunks emitted before the k-th
NotEmittedBefore(p, k) ==
    \A j \in 1..(k - 1) : p \notin Range(emitted[j].sentences)

\* the words of the sub-chunks of sentence p emitted before the k-th chunk
subChunkWordsBefore(p, k) ==
    Flatten([j \in 1..(k - 1) |->
                IF IsSubOf(j, p) THEN split(chunks[j].text) ELSE <<>>])

C25_NewMaterial ==
    \A k \in 1..Len(chunks) :
        /\ chunks[k].text # <<>>
        /\ emitted[k].kind \in BufferKinds
           => /\ Len(emitted[k].sentences) > emitted[k].seeded
              /\ \E p \in Range(emitted[k].sentences) : NotEmittedBefore(p, k)
        /\ emitted[k].kind = "sub"
           => LET p == emitted[k].sentences[1]
                  before == subChunkWordsBefore(p, k)
                  words == split(chunks[k].text)
              IN  /\ words # <<>>
                  /\ \A j \in 1..(k - 1) :
                         emitted[j].kind \in BufferKinds
                         => p \notin Range(emitted[j].sentences)
                  \* the words of this sub-chunk are the next words of the
                  \* sentence, after those of the sub-chunks before it
                  /\ Len(before) + Len(words) <= Len(split(sentences[p]))
                  /\ words = SubSeq(split(sentences[p]), Len(before) + 1,
                                    Len(before) + Len(words))

\* chunk_overlap is not below chunk_size; a chunk seeded with the whole chunk
\* before it has been emitted, and sub-chunks of a long sentence after it
C25_Witness ==
    /\ chunk_overlap >= chunk_size
    /\ \E k \in 2..Len(chunks) :
           /\ emitted[k].kind \in BufferKinds
           /\ emitted[k].seeded = Len(emitted[k - 1].sentences)
           /\ emitted[k].seeded > 0
    /\ \E k \in 2..Len(chunks) :
           /\ emitted[k].kind = "sub"
           /\ emitted[k - 1].kind = "sub"
           /\ emitted[k].sentences = emitted[k - 1].sentences

(***************************************************************************)
(* C26: ingest_document never raises.  When extraction, chunking,          *)
(* embedding or storing fails, it returns a response with status "error",  *)
(* page_count 0 and chunk_count 0; for a document with no pages or no      *)
(* chunks it returns status "error" with chunk_count 0 and nothing has     *)
(* been written to the vector store; it returns status "success" only      *)
(* after add_documents has completed, with chunk_count the number of       *)
(* chunks that were made.                                                  *)
(***************************************************************************)
C26_IngestOutcome ==
    /\ pc # "ingest_raised"
    /\ response.status = "success"
       => /\ pc = "ingest_returned"
          /\ ingest.added
          /\ ingest.produced > 0
          /\ response.chunk_count = ingest.produced
          /\ Cardinality(collection) = ingest.produced
    /\ pc = "ingest_returned"
       => /\ response.status \in {"success", "error"}
          /\ exception # "none"
             => response = DocumentUploadResponse("error", 0, 0)
          /\ exception = "none" /\ (ingest.page_count = 0 \/ ingest.produced = 0)
             => /\ response.status = "error"
                /\ response.chunk_count = 0
                /\ collection = {}
          /\ exception = "none" /\ ingest.page_count > 0 /\ ingest.produced > 0
             => response.status = "success"

\* add_documents has raised after two pages were cut in chunks, and the call
\* has returned
C26_Witness ==
    /\ pc = "ingest_returned"
    /\ exception = "ConnectionError"
    /\ ingest.page_count = 2
    /\ ingest.produced >= 2
    /\ response.status = "error"
    /\ response.page_count = 0

(***************************************************************************)
(* C27: whenever the processing of an uploaded file fails in               *)
(* upload_document, by an exception or by ingest_document returning status *)
(* "error", the file the request saved under upload_dir has been removed   *)
(* when the request ends; a file remains on disk only after a successful   *)
(* ingestion.                                                              *)
(***************************************************************************)
C27_FailedUploadRemoved ==
    /\ \A r \in Requests :
           /\ uploads[r].pc = "done"
           /\ uploads[r].outcome \in {"error", "exception"}
           => \/ disk[uploads[r].filename] = 0
              \/ disk[uploads[r].filename] # uploads[r].handle
    /\ (\A r \in Requests : uploads[r].pc \in {"idle", "done"})
       => \A f \in Filenames :
              disk[f] # 0 => \E r \in Requests : /\ uploads[r].filename = f
                                                 /\ uploads[r].outcome = "success"

(***************************************************************************)
(* C30: two upload_document requests with the same file name that run at   *)
(* the same time do not interfere: the ingestion of each reads the bytes   *)
(* that this request wrote, and the cleanup of a request that failed does  *)
(* not remove the file of the other request.                               *)
(***************************************************************************)
C30_NoInterference ==
    \A r \in Requests, q \in Requests :
        r # q /\ uploads[r].filename = uploads[q].filename
        => /\ uploads[r].ingested
              => uploads[r].found /\ uploads[r].read = uploads[r].content
           /\ q \notin uploads[r].took

(***************************************************************************)
(* C28: the handler of DELETE /chat/conversations/{conversation_id}        *)
(* answers with status 404 whenever clear_conversation returns False, with *)
(* the success body whenever it returns True, and with status 500 only     *)
(* when an unexpected exception is raised.                                 *)
(***************************************************************************)
C28_DeleteStatus ==
    reply.op = "delete"
    => /\ reply.result = "false" => reply.status = 404
       /\ reply.result = "true" => reply.status = 200
       /\ reply.status = 500 => reply.result = "init_raised"

(***************************************************************************)
(* C29: for any sequence of chat and clear_conversation calls on one       *)
(* ChatService, a chat call on conversation c that succeeds extends the    *)
(* messages the service holds for c by exactly two, the user message and   *)
(* then the reply, and leaves the messages of every other conversation as  *)
(* they are; when the RAG chain raises, the messages of c are as before;   *)
(* a message that cannot be saved does not keep the response from being    *)
(* returned.                                                               *)
(***************************************************************************)
\* the messages a dict of conversations holds for c
held(d, c) == dictGet(d, c, <<>>)

\* the conversations other than c are the same in the two dicts
OthersSame(d, e, c) == {kv \in d : kv[1] # c} = {kv \in e : kv[1] # c}

\* the last two messages are a user message and a reply
EndsWithExchange(messages) ==
    /\ Len(messages) >= 2
    /\ messages[Len(messages) - 1].role = "user"
    /\ messages[Len(messages)].role = "assistant"

\* the statement read on the dict of the service alone
C29_Original ==
    reply.op = "chat"
    => LET c == reply.conversation
       IN  /\ OthersSame(conversations, reply.before, c)
           /\ reply.result = "ok"
              => /\ Len(held(conversations, c)) = Len(held(reply.before, c)) + 2
                 /\ SubSeq(held(conversations, c), 1, Len(held(reply.before, c)))
                        = held(reply.before, c)
                 /\ EndsWithExchange(held(conversations, c))
           /\ reply.result = "rag_raised"
              => held(conversations, c) = held(reply.before, c)
           /\ reply.unsaved > 0 => reply.result = "ok"

\* the statement read on the list _get_conversation gave the call: the one
\* of the dict, or for a conversation the dict does not have the rows of the
\* table, or nothing
C29_Amended ==
    reply.op = "chat"
    => LET c == reply.conversation
           cached == \E kv \in reply.before : kv[1] = c
       IN  /\ OthersSame(conversations, reply.before, c)
           /\ cached => reply.loaded = held(reply.before, c)
           /\ reply.result = "ok"
              => /\ Len(held(conversations, c)) = Len(reply.loaded) + 2
                 /\ SubSeq(held(conversations, c), 1, Len(reply.loaded))
                        = reply.loaded
                 /\ EndsWithExchange(held(conversations, c))
           /\ reply.result = "rag_raised"
              => \/ conversations = reply.before
                 \/ /\ ~cached
                    /\ conversations = setItem(reply.before, c, reply.loaded)
           /\ reply.unsaved > 0 => reply.result = "ok"

\* a chat call has answered on a conversation that the dict did not have
\* and the table had, and one of its two messages could not be saved
C29_Witness ==
    /\ reply.op = "chat"
    /\ reply.result = "ok"
    /\ ~ \E kv \in reply.before : kv[1] = reply.conversation
    /\ Len(reply.loaded) >= 2
    /\ reply.unsaved = 1
    /\ Len(held(conversations, reply.conversation)) = Len(reply.loaded) + 2

=============================================================================
